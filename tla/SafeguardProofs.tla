---------------------------- MODULE SafeguardProofs ----------------------------
(***************************************************************************)
(* What stands between a request and its effects, in the deployment: the   *)
(* fail-safe and its snapshots, the gateway of the production process, the *)
(* council's gates, the commands and telemetry of devices, and the votes   *)
(* and the integrity chain of the quantum defense.                         *)
(***************************************************************************)
EXTENDS MCPlatform, TLAPS, FiniteSetTheorems, WellFoundedInduction

-----------------------------------------------------------------------------
(* The greatest number of a bounded set. *)

LEMMA LeastNatural ==
    ASSUME NEW T \in SUBSET Nat, T # {}
    PROVE  \E x \in T : \A y \in T : x <= y
<1>1. PICK x \in T : \A y \in T : ~(<<y, x>> \in OpToRel(<, Nat))
  BY NatLessThanWellFounded, WFMin
<1>2. ASSUME NEW y \in T PROVE x <= y
  <2>1. y < x => <<y, x>> \in OpToRel(<, Nat)
    BY DEF OpToRel
  <2>2. ~(y < x)
    BY <1>1, <2>1
  <2> QED
    BY <2>2
<1> QED
  BY <1>2

LEMMA MaxFacts ==
    ASSUME NEW S \in SUBSET Nat, S # {}, NEW k \in Nat, \A s \in S : s <= k
    PROVE  Max(S) \in S /\ \A s \in S : s <= Max(S)
<1> DEFINE T == {k - s : s \in S}
<1>1. T \in SUBSET Nat
  <2>1. \A s \in S : k - s \in Nat
    OBVIOUS
  <2> QED
    BY <2>1
<1>2. T # {}
  <2>1. PICK s \in S : TRUE
    OBVIOUS
  <2>2. k - s \in T
    OBVIOUS
  <2> QED
    BY <2>2
<1>3. PICK x \in T : \A y \in T : x <= y
  <2> HIDE DEF T
  <2> QED
    BY <1>1, <1>2, LeastNatural
<1>4. PICK m \in S : x = k - m
  OBVIOUS
<1>5. \A s \in S : s <= m
  <2> SUFFICES ASSUME NEW s \in S PROVE s <= m
    OBVIOUS
  <2>1. k - s \in T
    OBVIOUS
  <2> QED
    BY <1>3, <1>4, <2>1
<1> QED
  BY <1>5 DEF Max

\* A number that is the greatest is Max.
LEMMA MaxUnique ==
    ASSUME NEW S \in SUBSET Nat, NEW m \in S, \A s \in S : s <= m
    PROVE  Max(S) = m
<1>1. \E x \in S : \A y \in S : x >= y
  OBVIOUS
<1>2. Max(S) \in S /\ \A y \in S : Max(S) >= y
  BY <1>1 DEF Max
<1>3. Max(S) >= m /\ m >= Max(S) /\ m \in Nat /\ Max(S) \in Nat
  BY <1>2
<1> QED
  BY <1>3

-----------------------------------------------------------------------------
(* Fail-safe: one lemma for each kind of step. *)

LEMMA InitFailSafe == FailSafeInit => FailSafeInv
<1> SUFFICES ASSUME FailSafeInit PROVE FailSafeInv
  OBVIOUS
<1> USE DEF FailSafeInit
<1>1. FailSafeTyped
  <2>1. saver \in [Saver -> SaverAt(0)]
    BY DEF Steps, SaverAt
  <2>2. DOMAIN files = {} /\ files \in [{} -> [previous : Nat, good : BOOLEAN]]
    OBVIOUS
  <2>3. \A s \in Saver : saver[s].step \notin Busy
    BY DEF Busy
  <2> QED
    BY <2>1, <2>2, <2>3 DEF FailSafeTyped
<1>2. Serialised /\ SavedIsKept
  BY DEF Serialised, SavedIsKept, Busy
<1>3. NamesStand /\ EffectsAreCovered /\ Continues
  BY DEF NamesStand, EffectsAreCovered, Continues
<1>4. OneWrites
  BY DEF OneWrites, Busy
<1> QED
  BY <1>1, <1>2, <1>3, <1>4 DEF FailSafeInv

\* The files that are kept are those of the last MaxSnapshots names.
LEMMA KeptFacts ==
    ASSUME FailSafeTyped, NamesStand, NEW n \in DOMAIN files
    PROVE  n \in Kept(MaxSnapshots) <=> named < n + MaxSnapshots
<1> DEFINE newer == {m \in DOMAIN files : m > n}
           last == (named - MaxSnapshots + 1)..named
<1>1. /\ n \in 1..named /\ named \in Nat /\ DOMAIN files \subseteq 1..named
      /\ MaxSnapshots \in Nat /\ MaxSnapshots >= 2
  BY FailSafeAssumption DEF FailSafeTyped
<1>2. n \in Kept(MaxSnapshots) <=> Cardinality(newer) < MaxSnapshots
  BY DEF Kept
<1>3. /\ IsFiniteSet((n + 1)..named)
      /\ Cardinality((n + 1)..named) = IF n + 1 > named THEN 0 ELSE named - (n + 1) + 1
  <2>1. n + 1 \in Int /\ named \in Int
    BY <1>1
  <2> QED
    BY <2>1, FS_Interval
<1>4. newer \in SUBSET ((n + 1)..named)
  BY <1>1
<1>5. /\ IsFiniteSet(newer) /\ Cardinality(newer) <= Cardinality((n + 1)..named)
      /\ Cardinality(newer) \in Nat
  <2> HIDE DEF newer
  <2> QED
    BY <1>3, <1>4, FS_Subset, FS_CardinalityType
<1>6. ASSUME named < n + MaxSnapshots PROVE Cardinality(newer) < MaxSnapshots
  <2> HIDE DEF newer
  <2> QED
    BY <1>1, <1>3, <1>5, <1>6
<1>7. ASSUME ~(named < n + MaxSnapshots) PROVE ~(Cardinality(newer) < MaxSnapshots)
  <2>1. last \in SUBSET newer
    <3> SUFFICES ASSUME NEW m \in last PROVE m \in DOMAIN files /\ m > n
      OBVIOUS
    <3>1. m \in 1..named /\ m > n /\ ~(named >= m + MaxSnapshots)
      BY <1>1, <1>7
    <3> QED
      BY <3>1 DEF NamesStand
  <2>2. Cardinality(last) = MaxSnapshots
    <3>1. named - MaxSnapshots + 1 \in Int /\ named \in Int
      BY <1>1
    <3>2. Cardinality(last) = IF named - MaxSnapshots + 1 > named THEN 0
                              ELSE named - (named - MaxSnapshots + 1) + 1
      BY <3>1, FS_Interval
    <3> HIDE DEF last
    <3> QED
      BY <1>1, <3>2
  <2>3. Cardinality(last) <= Cardinality(newer)
    <3> HIDE DEF newer, last
    <3> QED
      BY <1>5, <2>1, FS_Subset
  <2> HIDE DEF newer, last
  <2> QED
    BY <1>1, <1>5, <2>2, <2>3
<1> QED
  BY <1>2, <1>6, <1>7

\* The name before one whose older file is recent has its file, and is the
\* greatest below.
LEMMA BeforeFacts ==
    ASSUME FailSafeTyped, NamesStand, NEW S \in SUBSET (DOMAIN files), NEW n \in S,
           \A m \in DOMAIN files : named < m + MaxSnapshots => m \in S,
           \A m \in S : named < m + MaxSnapshots,
           {m \in S : m < n} # {}
    PROVE  Max({m \in S : m < n}) = n - 1
<1>1. /\ named \in Nat /\ DOMAIN files \subseteq 1..named /\ MaxSnapshots \in Nat
      /\ n \in 1..named
  BY FailSafeAssumption DEF FailSafeTyped
<1>2. PICK m \in S : m < n
  OBVIOUS
<1>3. m \in 1..named /\ named < m + MaxSnapshots
  BY <1>1
<1>4. n - 1 \in 1..named /\ named < (n - 1) + MaxSnapshots
  BY <1>1, <1>2, <1>3
<1>5. n - 1 \in DOMAIN files
  BY <1>1, <1>4 DEF NamesStand
<1> DEFINE older == {x \in S : x < n}
<1>6. older \in SUBSET Nat /\ n - 1 \in older /\ \A x \in older : x <= n - 1
  BY <1>1, <1>4, <1>5
<1> HIDE DEF older
<1>7. Max(older) = n - 1
  BY <1>6, MaxUnique
<1> QED
  BY <1>7 DEF older

\* The invariant gives the chain.
LEMMA RetainedFollows == FailSafeInv => RetainedChain
<1> SUFFICES ASSUME FailSafeInv PROVE RetainedChain
  OBVIOUS
<1>t. FailSafeTyped /\ NamesStand /\ Continues /\ OneWrites
  BY DEF FailSafeInv
<1>n. named \in Nat /\ DOMAIN files \subseteq 1..named /\ MaxSnapshots \in Nat
  BY <1>t, FailSafeAssumption DEF FailSafeTyped
<1>1. \A n \in acknowledged : n \notin DOMAIN files => Cardinality((n + 1)..named) >= MaxSnapshots
  <2> SUFFICES ASSUME NEW n \in acknowledged, n \notin DOMAIN files
               PROVE  Cardinality((n + 1)..named) >= MaxSnapshots
    OBVIOUS
  <2>1. n \in 1..named /\ n + 1 \in Int /\ named \in Int
    BY <1>t, <1>n DEF FailSafeTyped
  <2>2. named >= n + MaxSnapshots
    BY <1>t, <2>1 DEF NamesStand
  <2>3. Cardinality((n + 1)..named) = IF n + 1 > named THEN 0 ELSE named - (n + 1) + 1
    BY <2>1, FS_Interval
  <2> QED
    BY <1>n, <2>1, <2>2, <2>3, FailSafeAssumption
<1>2. \A n \in DOMAIN files : files[n].previous < n
  BY <1>t DEF Continues
<1>3. ASSUME Alone, ~damaged
      PROVE  /\ \A n \in DOMAIN files : files[n].good /\ files[n].previous = n - 1
             /\ latest # 0 => latest \in DOMAIN files
             /\ named \in acknowledged => \A n \in DOMAIN files : named < n + MaxSnapshots
  BY <1>t, <1>3 DEF OneWrites
<1>4. ASSUME Alone, ~damaged, NEW n \in Kept(MaxSnapshots),
             {m \in Kept(MaxSnapshots) : m < n} # {}
      PROVE  files[n].previous = Max({m \in Kept(MaxSnapshots) : m < n})
  <2>1. /\ Kept(MaxSnapshots) \in SUBSET (DOMAIN files)
        /\ \A m \in DOMAIN files : m \in Kept(MaxSnapshots) <=> named < m + MaxSnapshots
    BY <1>t, KeptFacts DEF Kept
  <2>2. Max({m \in Kept(MaxSnapshots) : m < n}) = n - 1
    BY <1>t, <1>4, <2>1, BeforeFacts
  <2> QED
    BY <1>3, <1>4, <2>1, <2>2
<1>5. ASSUME Alone, ~damaged, named \in acknowledged PROVE VerifiesRetained
  <2> SUFFICES ASSUME NEW n \in DOMAIN files
               PROVE  /\ files[n].good
                      /\ {m \in DOMAIN files : m < n} # {} =>
                           files[n].previous = Max({m \in DOMAIN files : m < n})
    BY DEF VerifiesRetained
  <2>1. {m \in DOMAIN files : m < n} # {} => Max({m \in DOMAIN files : m < n}) = n - 1
    BY <1>t, <1>3, <1>5, BeforeFacts
  <2> QED
    BY <1>3, <1>5, <2>1
<1> QED
  BY <1>1, <1>2, <1>3, <1>4, <1>5 DEF RetainedChain

\* One handler's record is replaced.
LEMMA SaverSet ==
    ASSUME FailSafeTyped, NEW k \in Nat, named <= k, NEW s \in Saver, NEW new \in SaverAt(k),
           saver' = [saver EXCEPT ![s] = new]
    PROVE  /\ saver' \in [Saver -> SaverAt(k)]
           /\ saver'[s] = new
           /\ \A t \in Saver \ {s} : saver'[t] = saver[t]
<1>1. saver \in [Saver -> SaverAt(named)] /\ named \in Nat
  BY DEF FailSafeTyped
<1>2. 0..named \subseteq 0..k /\ 1..named \subseteq 1..k
  BY <1>1
<1>3. \A t \in Saver : saver[t] \in SaverAt(k)
  BY <1>1, <1>2 DEF SaverAt
<1>4. saver' = [t \in Saver |-> IF t = s THEN new ELSE saver[t]]
  BY <1>1
<1> QED
  BY <1>3, <1>4

\* A handler that moves on.
LEMMA MoveFacts ==
    ASSUME FailSafeTyped, NEW s \in Saver, NEW step \in Steps, Move(s, step)
    PROVE  /\ saver' \in [Saver -> SaverAt(named)]
           /\ saver'[s].step = step
           /\ saver'[s].number = saver[s].number
           /\ saver'[s].previous = saver[s].previous
           /\ saver'[s].old = saver[s].old
           /\ \A t \in Saver \ {s} : saver'[t] = saver[t]
<1>1. saver[s] \in SaverAt(named) /\ named \in Nat /\ named <= named
  BY DEF FailSafeTyped
<1> DEFINE new == [saver[s] EXCEPT !.step = step]
<1>2. saver' = [saver EXCEPT ![s] = new]
  BY DEF Move, FailSafeTyped
<1>3. /\ new \in SaverAt(named) /\ new.step = step /\ new.number = saver[s].number
      /\ new.previous = saver[s].previous /\ new.old = saver[s].old
  BY <1>1 DEF SaverAt
<1> HIDE DEF new
<1> QED
  BY <1>1, <1>2, <1>3, SaverSet

\* A handler that moves on without writing, out of the lock if it had it.
LEMMA QuietMove ==
    ASSUME FailSafeInv, NEW s \in Saver, NEW step \in Steps \ Busy, Move(s, step),
           UNCHANGED <<keyed, required, controller, files, latest, named, acknowledged, damaged>>,
           \/ saver[s].step \notin Busy /\ locked' = locked
           \/ saver[s].step \in Busy /\ locked' = Free(s),
           step = "saved" /\ (keyed \/ required) => saver[s].number \in acknowledged,
           EffectsAreCovered'
    PROVE  FailSafeInv'
<1>t. FailSafeTyped /\ Serialised /\ SavedIsKept /\ OneWrites /\ NamesStand /\ Continues
  BY DEF FailSafeInv
<1>1. /\ saver' \in [Saver -> SaverAt(named)]
      /\ saver'[s].step = step
      /\ saver'[s].number = saver[s].number
      /\ \A t \in Saver \ {s} : saver'[t] = saver[t]
  BY <1>t, MoveFacts
<1>0. step # "read" /\ step # "pointed" /\ step # "listed"
  BY DEF Busy
<1>2. FailSafeTyped'
  BY <1>t, <1>1 DEF FailSafeTyped, Free
<1>3. Serialised'
  BY <1>t, <1>1 DEF Serialised, Free
<1>4. SavedIsKept' /\ NamesStand' /\ Continues'
  BY <1>t, <1>0, <1>1 DEF SavedIsKept, NamesStand, Continues
<1>5. OneWrites'
  <2>1. Alone' = Alone
    BY DEF Alone
  <2> QED
    BY <1>t, <1>0, <1>1, <2>1 DEF OneWrites
<1> QED
  BY <1>2, <1>3, <1>4, <1>5 DEF FailSafeInv

\* With one controller no other handler is at a checkpoint.
LEMMA OthersRest ==
    ASSUME Serialised, Alone, NEW s \in Saver, saver[s].step \in Busy
    PROVE  \A t \in Saver \ {s} : saver[t].step \notin Busy
BY DEF Serialised, Alone

\* A checkpoint begins.
LEMMA ReadDigestInv ==
    ASSUME FailSafeInv, NEW s \in Saver, ReadDigest(s)
    PROVE  FailSafeInv'
<1>t. /\ FailSafeTyped /\ Serialised /\ SavedIsKept /\ OneWrites /\ NamesStand /\ Continues
      /\ EffectsAreCovered
  BY DEF FailSafeInv
<1> DEFINE again == (saver[s].step = "unavailable")
           new == [saver[s] EXCEPT !.step = "read", !.again = again, !.previous = NewestValid]
           valid == {n \in DOMAIN files : files[n].good}
<1>1. /\ saver[s].step \in {"new", "unavailable"} /\ controller[s] \notin locked
      /\ locked' = locked \cup {controller[s]}
      /\ saver' = [saver EXCEPT ![s] = new]
      /\ UNCHANGED <<keyed, required, controller, files, latest, named, acknowledged, effects, damaged>>
  BY DEF ReadDigest
<1>d. named \in Nat /\ DOMAIN files \subseteq 1..named /\ named <= named
  BY <1>t DEF FailSafeTyped
<1>2. NewestValid \in 0..named
  <2>1. CASE valid = {}
    BY <1>d, <2>1 DEF NewestValid
  <2>2. CASE valid # {}
    <3>1. valid \in SUBSET Nat /\ \A n \in valid : n <= named
      BY <1>d
    <3>2. Max(valid) \in valid
      <4> HIDE DEF valid
      <4> QED
        BY <1>d, <2>2, <3>1, MaxFacts
    <3>3. NewestValid = Max(valid)
      BY <2>2 DEF NewestValid
    <3> QED
      BY <1>d, <3>2, <3>3
  <2> QED
    BY <2>1, <2>2
<1>3. Alone /\ ~damaged => NewestValid = named
  <2> SUFFICES ASSUME Alone, ~damaged PROVE NewestValid = named
    OBVIOUS
  <2>1. \A n \in DOMAIN files : files[n].good
    BY <1>t DEF OneWrites
  <2>2. CASE named = 0
    BY <1>2, <1>d, <2>2
  <2>3. CASE named # 0
    <3>1. named \in 1..named /\ ~(named >= named + MaxSnapshots)
      BY <1>d, <2>3, FailSafeAssumption
    <3>2. named \in valid
      BY <1>t, <2>1, <3>1 DEF NamesStand
    <3>3. valid \in SUBSET Nat /\ \A n \in valid : n <= named
      BY <1>d
    <3>4. Max(valid) = named
      <4> HIDE DEF valid
      <4> QED
        BY <3>2, <3>3, MaxUnique
    <3> QED
      BY <3>2, <3>4 DEF NewestValid
  <2> QED
    BY <2>2, <2>3
<1>4. /\ new \in SaverAt(named) /\ new.step = "read" /\ new.previous = NewestValid
      /\ new.number = saver[s].number
  <2>1. saver[s] \in SaverAt(named) /\ again \in BOOLEAN /\ "read" \in Steps
    BY <1>t DEF FailSafeTyped, Steps, Busy
  <2> HIDE DEF again
  <2> QED
    BY <1>2, <2>1 DEF SaverAt
<1> HIDE DEF new, again, valid
<1>5. /\ saver' \in [Saver -> SaverAt(named)]
      /\ saver'[s] = new
      /\ \A t \in Saver \ {s} : saver'[t] = saver[t]
  BY <1>t, <1>1, <1>d, <1>4, SaverSet
<1>6. FailSafeTyped'
  BY <1>t, <1>1, <1>4, <1>5 DEF FailSafeTyped
<1>7. Serialised'
  BY <1>t, <1>1, <1>4, <1>5 DEF Serialised
<1>8. SavedIsKept' /\ EffectsAreCovered' /\ NamesStand' /\ Continues'
  BY <1>t, <1>1, <1>4, <1>5 DEF SavedIsKept, EffectsAreCovered, NamesStand, Continues
<1>9. OneWrites'
  <2>1. Alone' = Alone
    BY <1>1 DEF Alone
  <2> QED
    BY <1>t, <1>1, <1>3, <1>4, <1>5, <2>1 DEF OneWrites
<1> QED
  BY <1>6, <1>7, <1>8, <1>9 DEF FailSafeInv

\* A snapshot is written under a new name, after the newest one.
LEMMA WriteSnapshotInv ==
    ASSUME FailSafeInv, NEW s \in Saver, WriteSnapshot(s)
    PROVE  FailSafeInv'
<1>t. /\ FailSafeTyped /\ Serialised /\ NamesStand /\ SavedIsKept /\ OneWrites /\ Continues
      /\ EffectsAreCovered
  BY DEF FailSafeInv
<1> DEFINE n == named + 1
           new == [saver[s] EXCEPT !.step = "written", !.number = n]
           written == [previous |-> saver[s].previous, good |-> TRUE]
<1>1. /\ saver[s].step = "read" /\ named' = n
      /\ files' = [x \in DOMAIN files \cup {n} |-> IF x = n THEN written ELSE files[x]]
      /\ saver' = [saver EXCEPT ![s] = new]
      /\ UNCHANGED <<keyed, required, controller, locked, latest, acknowledged, effects, damaged>>
  BY DEF WriteSnapshot
<1>2. /\ saver[s] \in SaverAt(named)
      /\ named \in Nat /\ n \in Nat /\ n > named /\ named <= n /\ DOMAIN files \subseteq 1..named
      /\ acknowledged \subseteq 1..named
  BY <1>t DEF FailSafeTyped
<1>3. /\ new \in SaverAt(n) /\ new.step = "written" /\ new.number = n
      /\ "written" \in Busy \ {"read"}
  <2>1. "written" \in Steps /\ 0..named \subseteq 0..n /\ 1..named \subseteq 1..n /\ n \in 0..n
    BY <1>2 DEF Steps, Busy
  <2> HIDE DEF n
  <2> QED
    BY <1>2, <2>1 DEF SaverAt, Busy
<1>4. /\ written.previous = saver[s].previous /\ written.good = TRUE /\ saver[s].previous \in 0..named
      /\ written \in [previous : Nat, good : BOOLEAN]
  BY <1>2 DEF SaverAt
<1>5. /\ DOMAIN files' = DOMAIN files \cup {n}
      /\ files'[n] = written
      /\ \A x \in DOMAIN files : files'[x] = files[x] /\ x # n
      /\ n \notin DOMAIN files
  BY <1>1, <1>2
<1> HIDE DEF written, new
<1>6. /\ saver' \in [Saver -> SaverAt(n)]
      /\ saver'[s] = new
      /\ \A t \in Saver \ {s} : saver'[t] = saver[t]
  BY <1>t, <1>1, <1>2, <1>3, SaverSet
<1>7. FailSafeTyped'
  <2>1. files' \in [DOMAIN files' -> [previous : Nat, good : BOOLEAN]]
    BY <1>t, <1>1, <1>4 DEF FailSafeTyped
  <2>2. DOMAIN files' \subseteq 1..named' /\ acknowledged' \subseteq 1..named' /\ named' \in Nat
    BY <1>t, <1>1, <1>2, <1>5 DEF FailSafeTyped
  <2>3. \A t \in Saver : saver'[t].step \in Busy \ {"read"} => saver'[t].number # 0
    BY <1>t, <1>2, <1>3, <1>6 DEF FailSafeTyped
  <2>4. locked' \subseteq {controller'[t] : t \in Saver}
    BY <1>t, <1>1 DEF FailSafeTyped
  <2>5. saver' \in [Saver -> SaverAt(named')]
    BY <1>1, <1>6
  <2> QED
    BY <2>1, <2>2, <2>3, <2>4, <2>5 DEF FailSafeTyped
<1>8. Serialised'
  BY <1>t, <1>1, <1>3, <1>6 DEF Serialised, Busy
<1>9. NamesStand'
  <2>1. ASSUME NEW m \in (1..n) \ DOMAIN files' PROVE n >= m + MaxSnapshots
    <3>1. m \in (1..named) \ DOMAIN files
      BY <1>2, <1>5, <2>1
    <3>2. named >= m + MaxSnapshots
      BY <1>t, <3>1 DEF NamesStand
    <3> QED
      BY <1>2, <3>1, <3>2, FailSafeAssumption
  <2>2. ASSUME NEW t \in Saver, saver'[t].step = "listed", NEW m \in saver'[t].old
        PROVE  n >= m + MaxSnapshots
    <3>1. t # s /\ saver[t].step = "listed" /\ m \in saver[t].old
      BY <1>3, <1>6, <2>2
    <3>2. named >= m + MaxSnapshots /\ m \in 1..named
      <4>1. saver[t] \in SaverAt(named)
        BY <1>t DEF FailSafeTyped
      <4> QED
        BY <1>t, <3>1, <4>1 DEF NamesStand, SaverAt
    <3> QED
      BY <1>2, <3>2, FailSafeAssumption
  <2> QED
    BY <1>1, <2>1, <2>2 DEF NamesStand
<1>10. SavedIsKept' /\ EffectsAreCovered'
  BY <1>t, <1>1, <1>3, <1>6 DEF SavedIsKept, EffectsAreCovered
<1>11. Continues'
  BY <1>t, <1>2, <1>4, <1>5 DEF Continues
<1>12. OneWrites'
  <2> SUFFICES ASSUME Alone, ~damaged
               PROVE  /\ \A x \in DOMAIN files' : files'[x].good /\ files'[x].previous = x - 1
                      /\ \A t \in Saver :
                           /\ saver'[t].step = "read" => saver'[t].previous = n
                           /\ saver'[t].step \in Busy \ {"read"} =>
                                saver'[t].number = n /\ n \notin acknowledged
                           /\ saver'[t].step \in {"pointed", "listed"} => latest = n
                           /\ saver'[t].step = "listed" =>
                                \A x \in DOMAIN files' : n >= x + MaxSnapshots => x \in saver'[t].old
                      /\ latest # 0 => latest \in DOMAIN files'
                      /\ n \in acknowledged => \A x \in DOMAIN files' : n < x + MaxSnapshots
    BY <1>1 DEF OneWrites, Alone
  <2>1. \A x \in DOMAIN files' : files'[x].good /\ files'[x].previous = x - 1
    <3>1. saver[s].previous = named
      BY <1>t, <1>1 DEF OneWrites
    <3>2. \A x \in DOMAIN files : files[x].good /\ files[x].previous = x - 1
      BY <1>t DEF OneWrites
    <3> QED
      BY <1>2, <1>4, <1>5, <3>1, <3>2
  <2>2. n \notin acknowledged
    BY <1>2
  <2>3. \A t \in Saver \ {s} : saver'[t].step \notin Busy
    BY <1>t, <1>1, <1>6, OthersRest DEF Busy
  <2>4. latest # 0 => latest \in DOMAIN files'
    BY <1>t, <1>5 DEF OneWrites
  <2>5. \A t \in Saver : /\ saver'[t].step \notin {"read", "pointed", "listed"}
                         /\ saver'[t].step \in Busy => saver'[t].number = n
    BY <1>3, <1>6, <2>3 DEF Busy
  <2> HIDE DEF n
  <2> QED
    BY <2>1, <2>2, <2>4, <2>5
<1> QED
  BY <1>7, <1>8, <1>9, <1>10, <1>11, <1>12 DEF FailSafeInv

\* A step of a checkpoint that stays under the lock, and leaves the names and
\* what is acknowledged as they are.
LEMMA StayBusy ==
    ASSUME FailSafeInv, NEW s \in Saver, NEW new \in SaverAt(named),
           saver' = [saver EXCEPT ![s] = new],
           saver[s].step \in Busy \ {"read"}, new.step \in Busy \ {"read"}, new.number = saver[s].number,
           UNCHANGED <<keyed, required, controller, locked, named, acknowledged, effects, damaged>>,
           DOMAIN files' \subseteq DOMAIN files,
           files' = [m \in DOMAIN files' |-> files[m]],
           \A m \in DOMAIN files \ DOMAIN files' : named >= m + MaxSnapshots,
           new.step = "listed" => \A m \in new.old : named >= m + MaxSnapshots,
           Alone /\ ~damaged =>
              /\ new.step \in {"pointed", "listed"} => latest' = named
              /\ new.step = "listed" =>
                   \A m \in DOMAIN files' : named >= m + MaxSnapshots => m \in new.old
              /\ latest' \in DOMAIN files'
    PROVE  FailSafeInv'
<1>t. /\ FailSafeTyped /\ Serialised /\ NamesStand /\ SavedIsKept /\ OneWrites /\ Continues
      /\ EffectsAreCovered
  BY DEF FailSafeInv
<1>1. named \in Nat /\ named <= named /\ \A m \in DOMAIN files' : files'[m] = files[m]
  BY <1>t DEF FailSafeTyped
<1>2. /\ saver' \in [Saver -> SaverAt(named)]
      /\ saver'[s] = new
      /\ \A t \in Saver \ {s} : saver'[t] = saver[t]
  BY <1>t, <1>1, SaverSet
<1>3. FailSafeTyped'
  <2>1. files' \in [DOMAIN files' -> [previous : Nat, good : BOOLEAN]]
    BY <1>t, <1>1 DEF FailSafeTyped
  <2>2. \A t \in Saver : saver'[t].step \in Busy \ {"read"} => saver'[t].number # 0
    BY <1>t, <1>2 DEF FailSafeTyped
  <2> QED
    BY <1>t, <1>1, <1>2, <2>1, <2>2 DEF FailSafeTyped
<1>4. Serialised'
  BY <1>t, <1>2 DEF Serialised
<1>5. NamesStand' /\ Continues'
  BY <1>t, <1>1, <1>2 DEF NamesStand, Continues
<1>6. SavedIsKept' /\ EffectsAreCovered'
  BY <1>t, <1>2 DEF SavedIsKept, EffectsAreCovered, Busy
<1>7. OneWrites'
  <2> SUFFICES ASSUME Alone, ~damaged
               PROVE  /\ \A x \in DOMAIN files' : files'[x].good /\ files'[x].previous = x - 1
                      /\ \A t \in Saver :
                           /\ saver'[t].step = "read" => saver'[t].previous = named
                           /\ saver'[t].step \in Busy \ {"read"} =>
                                saver'[t].number = named /\ named \notin acknowledged
                           /\ saver'[t].step \in {"pointed", "listed"} => latest' = named
                           /\ saver'[t].step = "listed" =>
                                \A x \in DOMAIN files' : named >= x + MaxSnapshots => x \in saver'[t].old
                      /\ latest' # 0 => latest' \in DOMAIN files'
                      /\ named \in acknowledged => \A x \in DOMAIN files' : named < x + MaxSnapshots
    BY DEF OneWrites, Alone
  <2>1. \A x \in DOMAIN files' : files'[x].good /\ files'[x].previous = x - 1
    BY <1>t, <1>1 DEF OneWrites
  <2>2. \A t \in Saver \ {s} : saver'[t].step \notin Busy
    BY <1>t, <1>2, OthersRest
  <2>3. saver[s].number = named /\ named \notin acknowledged
    BY <1>t DEF OneWrites
  <2>4. new.step # "read"
    OBVIOUS
  <2> QED
    BY <1>2, <2>1, <2>2, <2>3, <2>4 DEF Busy
<1> QED
  BY <1>3, <1>4, <1>5, <1>6, <1>7 DEF FailSafeInv

\* The pointer is moved to a snapshot that is there.
LEMMA WritePointerInv ==
    ASSUME FailSafeInv, NEW s \in Saver, WritePointer(s)
    PROVE  FailSafeInv'
<1>t. FailSafeTyped /\ NamesStand /\ OneWrites
  BY DEF FailSafeInv
<1> DEFINE new == [saver[s] EXCEPT !.step = "pointed"]
<1>1. /\ saver[s].step = "written" /\ latest' = saver[s].number
      /\ saver' = [saver EXCEPT ![s] = new]
      /\ UNCHANGED <<keyed, required, controller, locked, files, named, acknowledged, effects, damaged>>
  BY DEF WritePointer, Move
<1>2. saver[s] \in SaverAt(named) /\ named \in Nat /\ files = [m \in DOMAIN files |-> files[m]]
  BY <1>t DEF FailSafeTyped
<1>3. /\ new \in SaverAt(named) /\ new.step = "pointed" /\ new.number = saver[s].number
  BY <1>2 DEF SaverAt, Steps, Busy
<1>4. Alone /\ ~damaged => latest' = named /\ named \in DOMAIN files
  <2> SUFFICES ASSUME Alone, ~damaged PROVE latest' = named /\ named \in DOMAIN files
    OBVIOUS
  <2>1. "written" \in Busy \ {"read"}
    BY DEF Busy
  <2>2. saver[s].number = named /\ named # 0
    BY <1>t, <1>1, <2>1 DEF OneWrites, FailSafeTyped
  <2>3. named \in 1..named /\ ~(named >= named + MaxSnapshots)
    BY <1>2, <2>2, FailSafeAssumption
  <2> QED
    BY <1>t, <1>1, <2>2, <2>3 DEF NamesStand
<1> HIDE DEF new
<1> QED
  BY <1>1, <1>2, <1>3, <1>4, StayBusy DEF Busy

\* Only files beyond the newest MaxSnapshots are listed, and all of them are.
LEMMA ListOldInv ==
    ASSUME FailSafeInv, NEW s \in Saver, ListOld(s)
    PROVE  FailSafeInv'
<1>t. FailSafeTyped /\ NamesStand /\ OneWrites
  BY DEF FailSafeInv
<1> DEFINE old == DOMAIN files \ Kept(MaxSnapshots)
           new == [saver[s] EXCEPT !.step = "listed", !.old = old]
<1>1. /\ saver[s].step = "pointed"
      /\ saver' = [saver EXCEPT ![s] = new]
      /\ UNCHANGED <<keyed, required, controller, locked, files, latest, named, acknowledged, effects, damaged>>
  BY DEF ListOld
<1>2. /\ saver[s] \in SaverAt(named) /\ named \in Nat /\ DOMAIN files \subseteq 1..named
      /\ files = [m \in DOMAIN files |-> files[m]]
      /\ "pointed" \in Busy \ {"read"} /\ saver[s].number # 0
  BY <1>t, <1>1 DEF FailSafeTyped, Busy
<1>3. \A m \in DOMAIN files : m \in old <=> named >= m + MaxSnapshots
  <2> SUFFICES ASSUME NEW m \in DOMAIN files PROVE m \in old <=> named >= m + MaxSnapshots
    OBVIOUS
  <2>1. m \in Kept(MaxSnapshots) <=> named < m + MaxSnapshots
    BY <1>t, KeptFacts
  <2> QED
    BY <1>2, <2>1, FailSafeAssumption
<1>4. old \subseteq DOMAIN files /\ old \in SUBSET (1..named)
  BY <1>2
<1> HIDE DEF old
<1>5. /\ new \in SaverAt(named) /\ new.step = "listed" /\ new.number = saver[s].number
      /\ new.old = old
  BY <1>2, <1>4 DEF SaverAt, Steps, Busy
<1>6. Alone /\ ~damaged => latest = named /\ latest # 0 /\ latest \in DOMAIN files
  BY <1>t, <1>1, <1>2 DEF OneWrites
<1> HIDE DEF new
<1> QED
  BY <1>1, <1>2, <1>3, <1>4, <1>5, <1>6, StayBusy DEF Busy

\* A file goes that has MaxSnapshots newer ones; the pointer's stays.
LEMMA UnlinkInv ==
    ASSUME FailSafeInv, NEW s \in Saver, Unlink(s)
    PROVE  FailSafeInv'
<1>t. FailSafeTyped /\ NamesStand /\ OneWrites
  BY DEF FailSafeInv
<1> DEFINE old == saver[s].old
           n == Max(old)
           new == [saver[s] EXCEPT !.old = old \ {n}]
<1>1. /\ saver[s].step = "listed" /\ old # {}
      /\ files' = [m \in DOMAIN files \ {n} |-> files[m]]
      /\ saver' = [saver EXCEPT ![s] = new]
      /\ UNCHANGED <<keyed, required, controller, locked, latest, named, acknowledged, effects, damaged>>
  BY DEF Unlink
<1>2. /\ saver[s] \in SaverAt(named) /\ named \in Nat
      /\ "listed" \in Busy \ {"read"} /\ saver[s].number # 0
  BY <1>t, <1>1 DEF FailSafeTyped, Busy
<1>3. old \in SUBSET Nat /\ old \in SUBSET (1..named) /\ \A m \in old : m <= named
  BY <1>2 DEF SaverAt
<1>4. n \in old
  <2> HIDE DEF old
  <2> QED
    BY <1>1, <1>2, <1>3, MaxFacts
<1>5. n \in 1..named /\ named >= n + MaxSnapshots /\ \A m \in old : named >= m + MaxSnapshots
  BY <1>t, <1>1, <1>3, <1>4 DEF NamesStand
<1>6. /\ new \in SaverAt(named) /\ new.step = "listed" /\ new.number = saver[s].number
      /\ new.old = old \ {n}
  <2> HIDE DEF n
  <2> QED
    BY <1>1, <1>2 DEF SaverAt
<1>7. /\ DOMAIN files' = DOMAIN files \ {n}
      /\ files' = [m \in DOMAIN files' |-> files[m]]
  BY <1>1
<1>8. Alone /\ ~damaged =>
        /\ latest = named /\ latest \in DOMAIN files'
        /\ \A m \in DOMAIN files' : named >= m + MaxSnapshots => m \in new.old
  <2> SUFFICES ASSUME Alone, ~damaged
               PROVE  /\ latest = named /\ latest \in DOMAIN files'
                      /\ \A m \in DOMAIN files' : named >= m + MaxSnapshots => m \in new.old
    OBVIOUS
  <2>1. saver[s].number = named
    BY <1>t, <1>1, <1>2 DEF OneWrites
  <2>2. latest = named /\ latest \in DOMAIN files
    BY <1>t, <1>1, <1>2, <2>1 DEF OneWrites
  <2>3. named # n
    BY <1>2, <1>5, FailSafeAssumption
  <2>4. \A m \in DOMAIN files : named >= m + MaxSnapshots => m \in old
    BY <1>t, <1>1 DEF OneWrites
  <2> HIDE DEF n, new
  <2> QED
    BY <1>6, <1>7, <2>2, <2>3, <2>4
<1> HIDE DEF new, n
<1> QED
  BY <1>1, <1>2, <1>5, <1>6, <1>7, <1>8, StayBusy

\* The receipt is returned when nothing beyond the newest files is left.
LEMMA ReturnReceiptInv ==
    ASSUME FailSafeInv, NEW s \in Saver, ReturnReceipt(s)
    PROVE  FailSafeInv'
<1>t. /\ FailSafeTyped /\ Serialised /\ NamesStand /\ SavedIsKept /\ OneWrites /\ Continues
      /\ EffectsAreCovered
  BY DEF FailSafeInv
<1>1. PICK step \in {"saved", "failed"} :
        /\ saver[s].step = "listed" /\ saver[s].old = {}
        /\ locked' = Free(s)
        /\ acknowledged' = acknowledged \cup {saver[s].number}
        /\ Move(s, step)
        /\ UNCHANGED <<keyed, required, controller, files, latest, named, effects, damaged>>
  BY DEF ReturnReceipt
<1>2. /\ step \in Steps /\ step \notin Busy
      /\ "listed" \in Busy \ {"read"} /\ saver[s].step \in Busy
  BY <1>1 DEF Steps, Busy
<1>3. /\ saver' \in [Saver -> SaverAt(named)]
      /\ saver'[s].step = step
      /\ saver'[s].number = saver[s].number
      /\ \A t \in Saver \ {s} : saver'[t] = saver[t]
  BY <1>t, <1>1, <1>2, MoveFacts
<1>4. saver[s].number \in 1..named /\ named \in Nat
  <2>1. saver[s] \in SaverAt(named) /\ saver[s].number # 0 /\ named \in Nat
    BY <1>t, <1>1, <1>2 DEF FailSafeTyped
  <2> QED
    BY <2>1 DEF SaverAt
<1>5. FailSafeTyped'
  BY <1>t, <1>1, <1>2, <1>3, <1>4 DEF FailSafeTyped, Free
<1>6. Serialised'
  BY <1>t, <1>1, <1>2, <1>3 DEF Serialised, Free
<1>7. SavedIsKept' /\ EffectsAreCovered' /\ Continues'
  BY <1>t, <1>1, <1>3 DEF SavedIsKept, EffectsAreCovered, Continues
<1>8. NamesStand'
  BY <1>t, <1>1, <1>2, <1>3 DEF NamesStand, Busy
<1>9. OneWrites'
  <2> SUFFICES ASSUME Alone, ~damaged
               PROVE  /\ \A x \in DOMAIN files : files[x].good /\ files[x].previous = x - 1
                      /\ \A t \in Saver : saver'[t].step \notin Busy
                      /\ latest # 0 => latest \in DOMAIN files
                      /\ \A x \in DOMAIN files : named < x + MaxSnapshots
    BY <1>1 DEF OneWrites, Alone, Busy
  <2>1. \A t \in Saver : saver'[t].step \notin Busy
    BY <1>t, <1>2, <1>3, OthersRest
  <2>2. \A x \in DOMAIN files : ~(named >= x + MaxSnapshots)
    BY <1>t, <1>1 DEF OneWrites
  <2>3. ASSUME NEW x \in DOMAIN files PROVE named < x + MaxSnapshots
    <3>1. x \in 1..named
      BY <1>t DEF FailSafeTyped
    <3> QED
      BY <1>4, <2>2, <3>1, FailSafeAssumption
  <2> QED
    BY <1>t, <2>1, <2>3 DEF OneWrites
<1> QED
  BY <1>5, <1>6, <1>7, <1>8, <1>9 DEF FailSafeInv

\* A file is damaged: only its goodness changes.
LEMMA DamageInv == FailSafeInv /\ Damage => FailSafeInv'
<1> SUFFICES ASSUME FailSafeInv, Damage PROVE FailSafeInv'
  OBVIOUS
<1>t. FailSafeTyped /\ Serialised /\ NamesStand /\ SavedIsKept /\ EffectsAreCovered /\ Continues
  BY DEF FailSafeInv
<1>1. PICK n \in DOMAIN files :
        /\ files' = [files EXCEPT ![n].good = FALSE]
        /\ damaged' = TRUE
        /\ UNCHANGED <<keyed, required, controller, locked, latest, named, saver, acknowledged, effects>>
  BY DEF Damage
<1>2. files[n] \in [previous : Nat, good : BOOLEAN]
  BY <1>t DEF FailSafeTyped
<1>3. /\ files' = [files EXCEPT ![n] = [files[n] EXCEPT !.good = FALSE]]
      /\ [files[n] EXCEPT !.good = FALSE] \in [previous : Nat, good : BOOLEAN]
      /\ [files[n] EXCEPT !.good = FALSE].previous = files[n].previous
  BY <1>1, <1>2
<1>4. /\ DOMAIN files' = DOMAIN files
      /\ files' \in [DOMAIN files -> [previous : Nat, good : BOOLEAN]]
      /\ \A m \in DOMAIN files : files'[m].previous = files[m].previous
  BY <1>t, <1>3 DEF FailSafeTyped
<1>5. FailSafeTyped' /\ Serialised'
  BY <1>t, <1>1, <1>4 DEF FailSafeTyped, Serialised
<1>6. NamesStand' /\ SavedIsKept' /\ EffectsAreCovered'
  BY <1>t, <1>1, <1>4 DEF NamesStand, SavedIsKept, EffectsAreCovered
<1>7. OneWrites' /\ Continues'
  BY <1>t, <1>1, <1>4 DEF OneWrites, Continues
<1> QED
  BY <1>5, <1>6, <1>7 DEF FailSafeInv

\* A crash ends every handler that is at work.
LEMMA FailSafeCrashInv == FailSafeInv /\ FailSafeCrash => FailSafeInv'
<1> SUFFICES ASSUME FailSafeInv, FailSafeCrash PROVE FailSafeInv'
  OBVIOUS
<1>t. /\ FailSafeTyped /\ OneWrites /\ SavedIsKept /\ EffectsAreCovered /\ NamesStand
      /\ Continues
  BY DEF FailSafeInv
<1>1. /\ locked' = {}
      /\ saver' = [s \in Saver |-> IF saver[s].step \in {"new", "done", "refused", "failed"}
                                   THEN saver[s] ELSE [saver[s] EXCEPT !.step = "failed"]]
      /\ UNCHANGED <<keyed, required, controller, files, latest, named, acknowledged, effects, damaged>>
  BY DEF FailSafeCrash
<1>2. /\ saver' \in [Saver -> SaverAt(named)]
      /\ \A s \in Saver : saver'[s].step \in {"new", "done", "refused", "failed"}
  <2> SUFFICES ASSUME NEW s \in Saver
               PROVE  /\ saver'[s] \in SaverAt(named)
                      /\ saver'[s].step \in {"new", "done", "refused", "failed"}
    BY <1>1
  <2>1. saver[s] \in SaverAt(named)
    BY <1>t DEF FailSafeTyped
  <2> QED
    BY <1>1, <2>1 DEF Steps, SaverAt
<1>3. FailSafeTyped' /\ Serialised' /\ SavedIsKept'
  BY <1>t, <1>1, <1>2 DEF FailSafeTyped, Serialised, SavedIsKept, Busy
<1>4. EffectsAreCovered' /\ NamesStand' /\ Continues'
  BY <1>t, <1>1, <1>2 DEF EffectsAreCovered, NamesStand, Continues
<1>5. OneWrites'
  BY <1>t, <1>1, <1>2 DEF OneWrites, Busy, Alone
<1> QED
  BY <1>3, <1>4, <1>5 DEF FailSafeInv

\* What is done is done after a snapshot, with the authority it needs.
LEMMA EffectInv ==
    ASSUME FailSafeInv, NEW s \in Saver, Mutate(s) \/ Dispatch(s)
    PROVE  FailSafeInv'
<1>t. FailSafeTyped /\ SavedIsKept /\ EffectsAreCovered
  BY DEF FailSafeInv
<1>1. PICK sent \in SUBSET {p \in Presented : Allows(p)}, step \in {"done", "unavailable"} :
        /\ saver[s].step = "saved"
        /\ effects' = effects \cup {[by |-> s, after |-> saver[s].number, sent |-> sent]}
        /\ Move(s, step)
        /\ UNCHANGED <<keyed, required, controller, locked, files, latest, named, acknowledged, damaged>>
  <2>1. CASE Mutate(s)
    <3>1. /\ saver[s].step = "saved"
          /\ {} \in SUBSET {p \in Presented : Allows(p)}
          /\ effects' = effects \cup {[by |-> s, after |-> saver[s].number, sent |-> {}]}
          /\ Move(s, "done")
          /\ UNCHANGED <<keyed, required, controller, locked, files, latest, named, acknowledged, damaged>>
      BY <2>1 DEF Mutate
    <3> QED
      BY <3>1
  <2>2. CASE Dispatch(s)
    <3>1. PICK p \in Presented :
            /\ Allows(p)
            /\ effects' = effects \cup {[by |-> s, after |-> saver[s].number, sent |-> {p}]}
      BY <2>2 DEF Dispatch
    <3>2. {p} \in SUBSET {q \in Presented : Allows(q)}
      BY <3>1
    <3>3. Move(s, "done") \/ Move(s, "unavailable")
      BY <2>2 DEF Dispatch
    <3>4. /\ saver[s].step = "saved"
          /\ UNCHANGED <<keyed, required, controller, locked, files, latest, named, acknowledged, damaged>>
      BY <2>2 DEF Dispatch
    <3> QED
      BY <3>1, <3>2, <3>3, <3>4
  <2> QED
    BY <2>1, <2>2
<1>2. keyed \/ required => saver[s].number \in acknowledged
  BY <1>t, <1>1 DEF SavedIsKept
<1>3. \A p \in sent :
         /\ p.status # "CONTRADICTED"
         /\ p.authority # "OBSERVATIONAL" => p.evidence /\ p.status \in {"VERIFIED", "SUPPORTED"}
         /\ p.authority = "EXECUTION" => p.receipt /\ p.status = "VERIFIED"
  <2> SUFFICES ASSUME NEW p \in sent
               PROVE  /\ p.status # "CONTRADICTED"
                      /\ p.authority # "OBSERVATIONAL" => p.evidence /\ p.status \in {"VERIFIED", "SUPPORTED"}
                      /\ p.authority = "EXECUTION" => p.receipt /\ p.status = "VERIFIED"
    OBVIOUS
  <2>1. p \in Presented /\ Allows(p)
    BY <1>1
  <2>2. p.authority \in AuthorityLevel
    BY <2>1, FailSafeAssumption
  <2> QED
    BY <2>1, <2>2 DEF Allows, AuthorityLevel
<1>4. EffectsAreCovered'
  BY <1>t, <1>1, <1>2, <1>3 DEF EffectsAreCovered
<1>5. step \in Steps \ Busy /\ saver[s].step \notin Busy /\ step # "saved"
  BY <1>1 DEF Steps, Busy
<1> QED
  BY <1>1, <1>4, <1>5, QuietMove

LEMMA FailSafeStep == FailSafeInv /\ FailSafeNext => FailSafeInv'
<1> SUFFICES ASSUME FailSafeInv, FailSafeNext PROVE FailSafeInv'
  OBVIOUS
<1>t. EffectsAreCovered
  BY DEF FailSafeInv
<1>1. ASSUME NEW s \in Saver, SkipCheckpoint(s) PROVE FailSafeInv'
  <2>1. PICK step \in {"refused", "saved"} :
          /\ saver[s].step = "new" /\ Move(s, step)
          /\ ~keyed /\ (required => step = "refused")
          /\ UNCHANGED <<keyed, required, controller, locked, files, latest, named, acknowledged, effects, damaged>>
    BY <1>1 DEF SkipCheckpoint
  <2>2. step \in Steps \ Busy /\ saver[s].step \notin Busy
    BY <2>1 DEF Steps, Busy
  <2>3. EffectsAreCovered'
    BY <1>t, <2>1 DEF EffectsAreCovered
  <2> QED
    BY <2>1, <2>2, <2>3, QuietMove
<1>2. ASSUME NEW s \in Saver, SaveFails(s) PROVE FailSafeInv'
  <2>1. PICK step \in {"refused", "failed"} :
          /\ saver[s].step \in Busy /\ Move(s, step) /\ locked' = Free(s)
          /\ UNCHANGED <<keyed, required, controller, files, latest, named, acknowledged, effects, damaged>>
    BY <1>2 DEF SaveFails, Busy
  <2>2. step \in Steps \ Busy /\ step # "saved"
    BY <2>1 DEF Steps, Busy
  <2>3. EffectsAreCovered'
    BY <1>t, <2>1 DEF EffectsAreCovered
  <2> QED
    BY <2>1, <2>2, <2>3, QuietMove
<1>3. ASSUME NEW s \in Saver, DispatchDenied(s) PROVE FailSafeInv'
  <2>1. /\ saver[s].step = "saved" /\ Move(s, "failed")
        /\ UNCHANGED <<keyed, required, controller, locked, files, latest, named, acknowledged, effects, damaged>>
    BY <1>3 DEF DispatchDenied
  <2>2. "failed" \in Steps \ Busy /\ saver[s].step \notin Busy
    BY <2>1 DEF Steps, Busy
  <2>3. EffectsAreCovered'
    BY <1>t, <2>1 DEF EffectsAreCovered
  <2> QED
    BY <2>1, <2>2, <2>3, QuietMove
<1> QED
  BY <1>1, <1>2, <1>3, ReadDigestInv, WriteSnapshotInv, WritePointerInv, ListOldInv, UnlinkInv,
     ReturnReceiptInv, EffectInv, DamageInv, FailSafeCrashInv DEF FailSafeNext

-----------------------------------------------------------------------------
(* The gateway. *)

LEMMA InitGateway == GatewayInit => GatewayInv
<1> SUFFICES ASSUME GatewayInit PROVE GatewayInv
  OBVIOUS
<1>1. /\ volume = [marker |-> 0, evidence |-> NoEvidence, wavs |-> {}, metadata |-> [a \in {} |-> 0]]
      /\ snapshot = NoRequest /\ process = NotUp /\ rate = NoRequest /\ audits = {}
      /\ thread = [t \in Thread |-> Untaken] /\ restore = NoRestore /\ second = 0 /\ marks = {}
  BY DEF GatewayInit
<1>2. /\ Limit \in Nat /\ Limit >= 1 /\ MaxBoots \in Nat
      /\ Cardinality(Thread) \in Nat
  BY GatewayAssumption, FS_CardinalityType
<1>3. volume.metadata = [a \in {} |-> 0] /\ volume.wavs = {}
  BY <1>1
<1>m. DOMAIN volume.metadata = {} /\ volume.metadata \in [DOMAIN volume.metadata -> Nat]
  BY <1>3
<1>e. NoEvidence \in Attestation /\ NotUp.step = "down" /\ NotUp.boot = 0
  BY DEF NoEvidence, Attestation, Commits, NotUp
<1>4. GatewayTyped
  <2>1. process \in Processes
    BY <1>1, <1>e DEF NotUp, NoDeployment, Deployment, Commits, Processes
  <2>2. volume \in [marker : Nat, evidence : Attestation, wavs : SUBSET Thread,
                    metadata : [DOMAIN volume.metadata -> Nat]]
    BY <1>1, <1>e, <1>m
  <2>3. GatewayTypeOK
    BY <1>1, <1>2, <1>e, <1>m DEF GatewayTypeOK, Counts, NoRequest
  <2>4. thread \in [Thread -> Calls]
    BY <1>1 DEF Untaken, Calls
  <2>5. restore \in [step : {"free", "read", "apply"}, rate : Counts]
    BY <1>1, <1>2 DEF NoRestore, NoRequest, Counts
  <2> QED
    BY <1>1, <2>1, <2>2, <2>3, <2>4, <2>5 DEF GatewayTyped
<1>5. CountsAreClose
  <2>1. Admitting = {}
    BY <1>1 DEF Admitting, Untaken
  <2>2. rate.speak = 0 /\ restore.step = "free"
    BY <1>1 DEF NoRequest, NoRestore
  <2> QED
    BY <1>2, <2>1, <2>2, FS_EmptySet DEF CountsAreClose
<1>6. NothingServed /\ BootsAreMarked
  BY <1>1, <1>e DEF NothingServed, BootsAreMarked, Up, Untaken
<1>7. ArtifactsAreWritten /\ AcceptanceIsEarned /\ AnsweredArtifactStands
  BY <1>1, <1>m DEF ArtifactsAreWritten, AcceptanceIsEarned, AnsweredArtifactStands, Untaken, NoEvidence
<1> QED
  BY <1>4, <1>5, <1>6, <1>7 DEF GatewayInv

LEMMA GatewayFacts ==
    ASSUME GatewayTyped
    PROVE  /\ Limit \in Nat /\ Limit >= 1 /\ Cardinality(Thread) \in Nat
           /\ ArtifactTTL \in Nat /\ MaxBoots \in Nat /\ second \in Nat
           /\ IsFiniteSet(Admitting) /\ Cardinality(Admitting) \in Nat
           /\ Cardinality(Admitting) <= Cardinality(Thread)
           /\ rate.solve \in 0..Limit /\ rate.speak \in Nat
           /\ snapshot.solve \in 0..Limit /\ snapshot.speak \in Nat
<1>1. Admitting \subseteq Thread
  BY DEF Admitting
<1>2. IsFiniteSet(Thread)
  BY GatewayAssumption
<1> QED
  BY <1>1, <1>2, GatewayAssumption, FS_Subset, FS_CardinalityType DEF GatewayTyped, GatewayTypeOK, Counts

\* A step of the preflight, while nothing of a request is there.
LEMMA PreflightMove ==
    ASSUME GatewayInv, UNCHANGED <<rate, audits, thread, restore, second>>,
           ~(Up /\ process.guarded), process' \in Processes, process.boot' \in 0..MaxBoots,
           process.step' \in {"preflight", "mark", "attest"} => process.guarded',
           Up' => (process.evidence.ready' <=> process.guarded'),
           volume' \in [marker : Nat, evidence : Attestation, wavs : SUBSET Thread,
                        metadata : [DOMAIN volume.metadata -> Nat]],
           volume.wavs' = volume.wavs, volume.metadata' = volume.metadata,
           volume.marker' \in {0} \cup marks', snapshot' \in Counts,
           BootsAreMarked', AcceptanceIsEarned'
    PROVE  GatewayInv'
<1>1. /\ GatewayTyped /\ NothingServed /\ CountsAreClose /\ ArtifactsAreWritten
      /\ AnsweredArtifactStands
  BY DEF GatewayInv
<1>2. GatewayTyped'
  <2>1. GatewayTypeOK'
    BY <1>1 DEF GatewayTyped, GatewayTypeOK, Processes
  <2> QED
    BY <1>1, <2>1 DEF GatewayTyped
<1>3. NothingServed'
  BY <1>1 DEF NothingServed
<1>4. restore.step = "free"
  BY <1>1 DEF NothingServed, NoRestore
<1>5. CountsAreClose'
  BY <1>1, <1>4 DEF CountsAreClose, Admitting
<1>6. ArtifactsAreWritten' /\ AnsweredArtifactStands'
  BY <1>1 DEF ArtifactsAreWritten, AnsweredArtifactStands
<1> QED
  BY <1>2, <1>3, <1>5, <1>6 DEF GatewayInv

LEMMA BootInv ==
    ASSUME GatewayInv, NEW d \in Deployments, Boot(d)
    PROVE  GatewayInv'
<1> USE DEF GatewayInv, GatewayTyped
<1>1. /\ process.step = "down" /\ process.boot < MaxBoots
      /\ process' = [step |-> "preflight", boot |-> process.boot + 1, deployment |-> d,
                     guarded |-> TRUE, observed |-> FALSE, evidence |-> NoEvidence]
      /\ UNCHANGED <<volume, snapshot, rate, audits, thread, restore, second, marks>>
  BY DEF Boot, Requests
<1>2. process.boot \in Nat /\ MaxBoots \in Nat /\ d \in Deployment
  BY GatewayAssumption DEF Processes
<1>e. NoEvidence \in Attestation
  BY DEF Attestation, NoEvidence, Commits
<1>b. process.boot + 1 \in Nat /\ process.boot + 1 \in 0..MaxBoots
  BY <1>1, <1>2
<1>3. process' \in Processes /\ process.boot' \in 0..MaxBoots /\ ~Up'
  BY <1>1, <1>2, <1>b, <1>e DEF Processes, Up
<1>4. BootsAreMarked'
  BY <1>1, <1>2 DEF BootsAreMarked
<1>5. AcceptanceIsEarned'
  BY <1>1 DEF AcceptanceIsEarned
<1>6. volume.marker \in {0} \cup marks /\ snapshot \in Counts
  BY DEF GatewayTypeOK
<1> QED
  BY <1>1, <1>3, <1>4, <1>5, <1>6, PreflightMove DEF Up

LEMMA PreflightFailsInv ==
    ASSUME GatewayInv, process.step \in {"preflight", "mark", "attest"}, FailedBoot,
           UNCHANGED <<volume, snapshot, rate, audits, thread, restore, second, marks>>
    PROVE  GatewayInv'
<1> USE DEF GatewayInv, GatewayTyped
<1>1. process' = [process EXCEPT !.step = "up", !.guarded = FALSE, !.evidence = NoEvidence]
  BY DEF FailedBoot
<1>2. process \in Processes /\ process.boot \in 0..MaxBoots
  BY DEF GatewayTypeOK
<1>3. NoEvidence \in Attestation /\ NoEvidence.ready = FALSE
  BY DEF Attestation, NoEvidence, Commits
<1>4. /\ process' \in Processes /\ process.boot' = process.boot /\ process.step' = "up"
      /\ process.guarded' = FALSE /\ process.evidence' = NoEvidence
  BY <1>1, <1>2, <1>3 DEF Processes
<1>5. BootsAreMarked'
  BY <1>4 DEF BootsAreMarked
<1>6. AcceptanceIsEarned'
  BY DEF AcceptanceIsEarned
<1>7. volume.marker \in {0} \cup marks /\ snapshot \in Counts
  BY DEF GatewayTypeOK
<1> QED
  BY <1>2, <1>3, <1>4, <1>5, <1>6, <1>7, PreflightMove DEF Up

LEMMA SelfTestInv ==
    ASSUME GatewayInv, SelfTest
    PROVE  GatewayInv'
<1> USE DEF GatewayInv, GatewayTyped
<1>1. /\ process.step = "preflight"
      /\ UNCHANGED <<volume, rate, audits, thread, restore, second>>
      /\ \/ FailedBoot /\ UNCHANGED <<snapshot, marks>>
         \/ /\ snapshot' = NoRequest
            /\ marks' = marks \cup {process.boot}
            /\ process' = [process EXCEPT !.step = "mark", !.observed = Observed]
  BY DEF SelfTest, Requests
<1>2. CASE FailedBoot /\ UNCHANGED <<snapshot, marks>>
  BY <1>1, <1>2, PreflightFailsInv
<1>3. CASE /\ snapshot' = NoRequest /\ marks' = marks \cup {process.boot}
           /\ process' = [process EXCEPT !.step = "mark", !.observed = Observed]
  <2>1. process \in Processes /\ process.boot \in 0..MaxBoots /\ process.boot # 0
    BY <1>1 DEF GatewayTypeOK, BootsAreMarked
  <2>2. Observed \in BOOLEAN
    BY DEF Observed
  <2>3. /\ process' \in Processes /\ process.boot' = process.boot /\ process.step' = "mark"
        /\ process.guarded' = process.guarded /\ process.observed' = Observed
    BY <1>3, <2>1, <2>2 DEF Processes
  <2>4. snapshot' \in Counts
    BY <1>3, GatewayAssumption DEF Counts, NoRequest
  <2>5. volume.marker \in {0} \cup marks /\ marks \subseteq 1..process.boot
    BY DEF GatewayTypeOK, BootsAreMarked
  <2>6. process.boot \in Nat /\ MaxBoots \in Nat
    BY <2>1, GatewayAssumption DEF Processes
  <2>7. Observed => volume.marker \in marks /\ volume.marker < process.boot
    BY <2>5, <2>6 DEF Observed
  <2>8. BootsAreMarked'
    BY <1>3, <2>1, <2>3, <2>5, <2>6, <2>7 DEF BootsAreMarked
  <2>9. AcceptanceIsEarned'
    BY <1>1, <1>3 DEF AcceptanceIsEarned
  <2>10. process.guarded
    BY <1>1 DEF NothingServed
  <2> QED
    BY <1>1, <1>3, <2>1, <2>3, <2>4, <2>5, <2>8, <2>9, <2>10, PreflightMove DEF Up
<1> QED
  BY <1>1, <1>2, <1>3

LEMMA WriteMarkerInv ==
    ASSUME GatewayInv, WriteMarker
    PROVE  GatewayInv'
<1> USE DEF GatewayInv, GatewayTyped
<1>1. /\ process.step = "mark"
      /\ UNCHANGED <<snapshot, rate, audits, thread, restore, second, marks>>
      /\ \/ FailedBoot /\ UNCHANGED volume
         \/ /\ volume' = [volume EXCEPT !.marker = process.boot]
            /\ process' = [process EXCEPT !.step = "attest"]
  BY DEF WriteMarker, Requests, BootGoes
<1>2. CASE FailedBoot /\ UNCHANGED volume
  BY <1>1, <1>2, PreflightFailsInv
<1>3. CASE /\ volume' = [volume EXCEPT !.marker = process.boot]
           /\ process' = [process EXCEPT !.step = "attest"]
  <2>1. process \in Processes /\ process.boot \in 0..MaxBoots /\ process.boot \in marks
    BY <1>1 DEF GatewayTypeOK, BootsAreMarked
  <2>2. /\ process' \in Processes /\ process.boot' = process.boot /\ process.step' = "attest"
        /\ process.guarded' = process.guarded /\ process.observed' = process.observed
    BY <1>3, <2>1 DEF Processes
  <2>3. process.boot \in Nat
    BY <2>1 DEF Processes
  <2>4. /\ volume' \in [marker : Nat, evidence : Attestation, wavs : SUBSET Thread,
                        metadata : [DOMAIN volume.metadata -> Nat]]
        /\ volume.wavs' = volume.wavs /\ volume.metadata' = volume.metadata
        /\ volume.marker' = process.boot /\ volume.evidence' = volume.evidence
    BY <1>3, <2>3
  <2>5. BootsAreMarked'
    BY <1>1, <2>1, <2>2 DEF BootsAreMarked
  <2>6. AcceptanceIsEarned'
    BY <1>1, <2>4 DEF AcceptanceIsEarned
  <2>7. process.guarded /\ snapshot \in Counts
    BY <1>1 DEF NothingServed, GatewayTypeOK
  <2> QED
    BY <1>1, <2>1, <2>2, <2>4, <2>5, <2>6, <2>7, PreflightMove DEF Up
<1> QED
  BY <1>1, <1>2, <1>3

LEMMA AttestInv ==
    ASSUME GatewayInv, Attest
    PROVE  GatewayInv'
<1> USE DEF GatewayInv, GatewayTyped
<1> DEFINE d == process.deployment
           e == [ready |-> TRUE, commit |-> d.commit, boot |-> process.boot,
                 accepted |-> d.required /\ d.token /\ (d.mount \/ d.override) /\ process.observed]
<1>1. /\ process.step = "attest"
      /\ UNCHANGED <<snapshot, rate, audits, thread, restore, second, marks>>
      /\ \/ FailedBoot /\ UNCHANGED volume
         \/ /\ volume' = [volume EXCEPT !.evidence = e]
            /\ process' = [process EXCEPT !.step = "up", !.evidence = e]
  BY DEF Attest, Requests
<1>2. CASE FailedBoot /\ UNCHANGED volume
  BY <1>1, <1>2, PreflightFailsInv
<1>3. CASE /\ volume' = [volume EXCEPT !.evidence = e]
           /\ process' = [process EXCEPT !.step = "up", !.evidence = e]
  <2>1. /\ process \in Processes /\ process.boot \in 0..MaxBoots /\ process.boot \in marks
        /\ process.observed => \E b \in marks : b < process.boot
    BY <1>1 DEF GatewayTypeOK, BootsAreMarked
  <2>2. d \in Deployment /\ process.boot \in Nat
    BY <2>1 DEF Processes
  <2>3. e \in Attestation /\ e.ready = TRUE /\ e.boot = process.boot
    BY <2>2 DEF Deployment, Attestation
  <2>4. e.accepted => process.observed
    OBVIOUS
  <2> HIDE DEF e
  <2>5. /\ process' \in Processes /\ process.boot' = process.boot /\ process.step' = "up"
        /\ process.guarded' = process.guarded /\ process.evidence' = e
    BY <1>3, <2>1, <2>3 DEF Processes
  <2>6. /\ volume' \in [marker : Nat, evidence : Attestation, wavs : SUBSET Thread,
                        metadata : [DOMAIN volume.metadata -> Nat]]
        /\ volume.wavs' = volume.wavs /\ volume.metadata' = volume.metadata
        /\ volume.marker' = volume.marker /\ volume.evidence' = e
    BY <1>3, <2>3
  <2>7. BootsAreMarked'
    BY <1>1, <2>1, <2>5 DEF BootsAreMarked
  <2>8. AcceptanceIsEarned'
    BY <1>1, <2>1, <2>3, <2>4, <2>6 DEF AcceptanceIsEarned
  <2>9. process.guarded /\ snapshot \in Counts /\ volume.marker \in {0} \cup marks
    BY <1>1 DEF NothingServed, GatewayTypeOK
  <2> QED
    BY <1>1, <2>1, <2>3, <2>5, <2>6, <2>7, <2>8, <2>9, PreflightMove DEF Up
<1> QED
  BY <1>1, <1>2, <1>3

\* A step of a request in a process whose preflight passed, or a step that
\* counts nothing.
LEMMA ServingMove ==
    ASSUME GatewayInv, UNCHANGED <<process, marks>>,
           \/ Up /\ process.guarded
           \/ UNCHANGED <<rate, thread, restore>> /\ ("gated" \in audits' => "gated" \in audits),
           volume' \in [marker : Nat, evidence : Attestation, wavs : SUBSET Thread,
                        metadata : [DOMAIN volume.metadata' -> Nat]],
           DOMAIN volume.metadata' \subseteq Thread,
           volume.marker' = volume.marker, volume.evidence' = volume.evidence,
           rate' \in Counts, snapshot' \in Counts, audits' \subseteq Origin, second' \in Nat,
           thread' \in [Thread -> Calls],
           restore' \in [step : {"free", "read", "apply"}, rate : Counts],
           CountsAreClose', ArtifactsAreWritten', AnsweredArtifactStands'
    PROVE  GatewayInv'
<1>1. GatewayTyped /\ NothingServed /\ BootsAreMarked /\ AcceptanceIsEarned
  BY DEF GatewayInv
<1>2. GatewayTyped'
  <2>1. GatewayTypeOK'
    BY <1>1 DEF GatewayTyped, GatewayTypeOK
  <2> QED
    BY <1>1, <2>1 DEF GatewayTyped
<1>3. NothingServed' /\ BootsAreMarked'
  BY <1>1 DEF NothingServed, BootsAreMarked, Up
<1>4. AcceptanceIsEarned'
  BY <1>1 DEF AcceptanceIsEarned
<1> QED
  BY <1>2, <1>3, <1>4 DEF GatewayInv

LEMMA PassSecondInv ==
    ASSUME GatewayInv, PassSecond
    PROVE  GatewayInv'
<1> USE DEF GatewayInv, GatewayTyped
<1>1. /\ second' = second + 1
      /\ UNCHANGED <<volume, snapshot, process, rate, audits, thread, restore, marks>>
  BY DEF PassSecond, Requests
<1>2. second' \in Nat /\ second \in Nat
  BY <1>1
<1>3. CountsAreClose' /\ ArtifactsAreWritten'
  BY <1>1 DEF CountsAreClose, Admitting, ArtifactsAreWritten
<1>4. AnsweredArtifactStands'
  <2> SUFFICES ASSUME NEW t \in Thread, thread[t].step = "answered", second + 1 <= thread[t].expiry
               PROVE  t \in volume.wavs \cap DOMAIN volume.metadata
    BY <1>1 DEF AnsweredArtifactStands
  <2>1. thread[t].expiry \in Nat
    BY DEF Calls
  <2> QED
    BY <1>2, <2>1 DEF AnsweredArtifactStands
<1>5. DOMAIN volume.metadata \subseteq Thread /\ rate \in Counts /\ snapshot \in Counts
  BY DEF GatewayTypeOK
<1> QED
  BY <1>1, <1>2, <1>3, <1>4, <1>5, ServingMove

LEMMA GatewayCrashInv ==
    ASSUME GatewayInv, Crash
    PROVE  GatewayInv'
<1> USE DEF GatewayInv, GatewayTyped
<1>1. /\ process' = [NotUp EXCEPT !.boot = process.boot]
      /\ rate' = NoRequest /\ audits' = {} /\ restore' = NoRestore
      /\ thread' = [t \in Thread |-> IF thread[t].step \in {"free", "answered"} THEN thread[t] ELSE Untaken]
      /\ UNCHANGED <<volume, snapshot, second, marks>>
  BY DEF Crash
<1>2. /\ Limit \in Nat /\ Limit >= 1 /\ Cardinality(Thread) \in Nat
  BY GatewayFacts
<1>3. process \in Processes /\ process.boot \in 0..MaxBoots
  BY DEF GatewayTypeOK
<1>4. process' \in Processes /\ process.step' = "down" /\ process.boot' = process.boot
  BY <1>1, <1>3 DEF NotUp, NoDeployment, NoEvidence, Processes, Attestation, Deployment, Commits
<1>5. NoRequest \in Counts /\ NoRequest.speak = 0
  BY <1>2 DEF Counts, NoRequest
<1>6. /\ restore' \in [step : {"free", "read", "apply"}, rate : Counts]
      /\ restore.step' = "free"
  BY <1>1, <1>5 DEF NoRestore
<1>7. /\ thread' \in [Thread -> Calls]
      /\ \A t \in Thread : /\ thread[t].step' \in {"free", "answered"}
                           /\ thread[t].step \in {"free", "answered"} => thread[t]' = thread[t]
                           /\ thread[t].step \notin {"free", "answered"} => thread[t].step' = "free"
  BY <1>1 DEF Calls, Untaken
<1>8. GatewayTyped'
  <2>1. GatewayTypeOK'
    BY <1>1, <1>3, <1>4, <1>5 DEF GatewayTypeOK, Processes
  <2> QED
    BY <1>1, <1>4, <1>6, <1>7, <2>1
<1>9. NothingServed'
  BY <1>1, <1>4, <1>7 DEF NothingServed, Up
<1>10. BootsAreMarked'
  BY <1>1, <1>4 DEF BootsAreMarked
<1>11. CountsAreClose'
  <2>1. Admitting' = {}
    BY <1>7 DEF Admitting
  <2>2. Cardinality(Admitting') = 0
    BY <2>1, FS_EmptySet
  <2>3. Cardinality(Admitting)' = 0
    BY <2>2
  <2> QED
    BY <1>1, <1>2, <1>5, <1>6, <2>3 DEF CountsAreClose
<1>12. ArtifactsAreWritten'
  <2>1. DOMAIN volume.metadata \subseteq Thread
    BY DEF GatewayTypeOK
  <2> QED
    BY <1>1, <1>7, <2>1 DEF ArtifactsAreWritten
<1>13. AnsweredArtifactStands' /\ AcceptanceIsEarned'
  BY <1>1, <1>7 DEF AnsweredArtifactStands, AcceptanceIsEarned
<1> QED
  BY <1>8, <1>9, <1>10, <1>11, <1>12, <1>13

LEMMA GatedSolveInv ==
    ASSUME GatewayInv, NEW role \in {"owner", "action", "research_council"}, GatedSolve(role)
    PROVE  GatewayInv'
<1> USE DEF GatewayInv, GatewayTyped
<1>1. /\ Up /\ process.guarded
      /\ role # "owner" => rate["solve"] < Limit
      /\ rate' = [rate EXCEPT !.solve = IF role = "owner" THEN rate.solve ELSE rate.solve + 1]
      /\ snapshot' = rate /\ audits' \in Audited("gated")
      /\ UNCHANGED <<volume, process, thread, restore, second, marks>>
  BY DEF GatedSolve, Ready, WithinLimit
<1>2. /\ Limit \in Nat /\ rate.solve \in 0..Limit /\ rate.speak \in Nat
      /\ Cardinality(Thread) \in Nat
  BY GatewayFacts
<1>3. rate \in Counts /\ snapshot \in Counts /\ DOMAIN volume.metadata \subseteq Thread
  BY DEF GatewayTypeOK
<1>4. rate' \in Counts /\ rate.speak' = rate.speak
  BY <1>1, <1>2, <1>3 DEF Counts
<1>5. audits' \subseteq Origin
  BY <1>1 DEF Audited, Origin
<1>6. CountsAreClose'
  <2>1. Admitting' = Admitting
    BY <1>1 DEF Admitting
  <2> QED
    BY <1>1, <1>2, <1>4, <2>1 DEF CountsAreClose
<1>7. ArtifactsAreWritten' /\ AnsweredArtifactStands'
  BY <1>1 DEF ArtifactsAreWritten, AnsweredArtifactStands
<1> QED
  BY <1>1, <1>3, <1>4, <1>5, <1>6, <1>7, ServingMove

\* A thread that is neither free nor answered serves a request.
LEMMA ThreadServes ==
    ASSUME GatewayInv, NEW t \in Thread, thread[t].step \notin {"free", "answered"}
    PROVE  Up /\ process.guarded
BY DEF GatewayInv, NothingServed

LEMMA ThreadMove ==
    ASSUME GatewayTyped, NEW t \in Thread,
           NEW step \in {"free", "admit", "prune", "wav", "metadata", "answered"},
           thread' = [thread EXCEPT ![t].step = step]
    PROVE  /\ thread' \in [Thread -> Calls]
           /\ thread[t].step' = step /\ thread[t].expiry' = thread[t].expiry
           /\ \A s \in Thread \ {t} : thread[s]' = thread[s]
BY DEF GatewayTyped, Calls

\* The threads to be counted, when one of them comes or goes.
LEMMA AdmittingMove ==
    ASSUME GatewayTyped, NEW t \in Thread, thread' \in [Thread -> Calls],
           \A s \in Thread \ {t} : thread[s]' = thread[s]
    PROVE  /\ thread[t].step = "admit" /\ thread[t].step' # "admit" =>
                Cardinality(Admitting)' = Cardinality(Admitting) - 1
           /\ thread[t].step # "admit" /\ thread[t].step' # "admit" => Admitting' = Admitting
           /\ Cardinality(Admitting)' \in Nat /\ Cardinality(Admitting)' <= Cardinality(Thread)
<1>1. IsFiniteSet(Admitting) /\ Cardinality(Admitting) \in Nat
  BY GatewayFacts
<1>2. CASE thread[t].step = "admit" /\ thread[t].step' # "admit"
  <2>1. Admitting' = Admitting \ {t} /\ t \in Admitting
    BY <1>2 DEF Admitting
  <2>2. Cardinality(Admitting \ {t}) = Cardinality(Admitting) - 1
    BY <1>1, <2>1, FS_RemoveElement
  <2>3. Cardinality(Admitting)' = Cardinality(Admitting) - 1
    BY <2>1, <2>2
  <2>4. Cardinality(Admitting) >= 1
    BY <1>1, <2>1, FS_EmptySet
  <2>5. Cardinality(Admitting) <= Cardinality(Thread) /\ Cardinality(Thread) \in Nat
    BY GatewayFacts
  <2> QED
    BY <1>1, <1>2, <2>3, <2>4, <2>5
<1>3. CASE ~(thread[t].step = "admit" /\ thread[t].step' # "admit")
  <2>1. Admitting' \subseteq Thread /\ IsFiniteSet(Thread)
    BY GatewayAssumption DEF Admitting
  <2>2. Cardinality(Admitting') \in Nat /\ Cardinality(Admitting') <= Cardinality(Thread)
    BY <2>1, FS_Subset, FS_CardinalityType
  <2>3. Cardinality(Admitting)' = Cardinality(Admitting')
    OBVIOUS
  <2>4. thread[t].step # "admit" /\ thread[t].step' # "admit" => Admitting' = Admitting
    BY DEF Admitting
  <2> QED
    BY <1>3, <2>2, <2>3, <2>4
<1> QED
  BY <1>2, <1>3

LEMMA SpeakInv ==
    ASSUME GatewayInv, NEW t \in Thread, Speak(t)
    PROVE  GatewayInv'
<1> USE DEF GatewayInv, GatewayTyped
<1>1. /\ thread[t].step = "free" /\ Up /\ process.guarded /\ rate["speak"] < Limit
      /\ thread' = [thread EXCEPT ![t].step = "admit"]
      /\ UNCHANGED <<volume, snapshot, process, rate, audits, restore, second, marks>>
  BY DEF Speak, Ready, WithinLimit, ThreadGoes
<1>2. /\ thread' \in [Thread -> Calls]
      /\ thread[t].step' = "admit"
      /\ \A s \in Thread \ {t} : thread[s]' = thread[s]
  BY <1>1, ThreadMove
<1>3. /\ Limit \in Nat /\ rate.speak \in Nat /\ Cardinality(Thread) \in Nat
  BY GatewayFacts
<1>4. rate \in Counts /\ snapshot \in Counts /\ DOMAIN volume.metadata \subseteq Thread
  BY DEF GatewayTypeOK
<1>5. CountsAreClose'
  <2>1. Cardinality(Admitting)' \in Nat /\ Cardinality(Admitting)' <= Cardinality(Thread)
    BY <1>2, AdmittingMove
  <2> QED
    BY <1>1, <1>3, <2>1 DEF CountsAreClose
<1>6. ArtifactsAreWritten' /\ AnsweredArtifactStands'
  BY <1>1, <1>2, <1>4 DEF ArtifactsAreWritten, AnsweredArtifactStands
<1> QED
  BY <1>1, <1>2, <1>4, <1>5, <1>6, ServingMove

LEMMA AdmitInv ==
    ASSUME GatewayInv, NEW t \in Thread, Admit(t)
    PROVE  GatewayInv'
<1> USE DEF GatewayInv, GatewayTyped
<1>1. /\ thread[t].step = "admit"
      /\ UNCHANGED <<volume, process, audits, restore, second, marks>>
      /\ \/ /\ snapshot' = rate /\ rate' = [rate EXCEPT !.speak = rate.speak + 1]
            /\ thread' = [thread EXCEPT ![t].step = "prune"]
         \/ thread' = [thread EXCEPT ![t] = Untaken] /\ UNCHANGED <<snapshot, rate>>
  BY DEF Admit, ThreadGoes, ThreadEnds
<1>2. /\ thread' \in [Thread -> Calls]
      /\ thread[t].step' \in {"prune", "free"}
      /\ \A s \in Thread \ {t} : thread[s]' = thread[s]
  BY <1>1, ThreadMove DEF Untaken, Calls
<1>3. /\ Limit \in Nat /\ rate.speak \in Nat /\ Cardinality(Thread) \in Nat
      /\ Cardinality(Admitting) \in Nat /\ rate.solve \in 0..Limit /\ snapshot.speak \in Nat
  BY GatewayFacts
<1>4. rate \in Counts /\ snapshot \in Counts /\ DOMAIN volume.metadata \subseteq Thread
  BY DEF GatewayTypeOK
<1>5. /\ rate' \in Counts /\ snapshot' \in Counts
      /\ \/ rate.speak' = rate.speak + 1 /\ snapshot.speak' = rate.speak
         \/ rate.speak' = rate.speak /\ snapshot.speak' = snapshot.speak
  BY <1>1, <1>3, <1>4 DEF Counts
<1>6. CountsAreClose'
  <2>1. Cardinality(Admitting)' = Cardinality(Admitting) - 1
    BY <1>1, <1>2, AdmittingMove
  <2>2. restore.rate.speak \in Nat /\ rate.speak' \in Nat
    BY <1>3, <1>5 DEF Counts
  <2>3. /\ rate.speak + Cardinality(Admitting) <= Limit + Cardinality(Thread) - 1
        /\ restore.step = "read" => snapshot.speak <= rate.speak
        /\ restore.step = "apply" => restore.rate.speak <= rate.speak
    BY DEF CountsAreClose
  <2>4. rate.speak' + Cardinality(Admitting)' <= Limit + Cardinality(Thread) - 1
    BY <1>3, <1>5, <2>1, <2>3
  <2>5. restore' = restore
    BY <1>1
  <2>6. restore.step = "read" => snapshot.speak' <= rate.speak'
    BY <1>3, <1>5, <2>3
  <2>7. restore.step = "apply" => restore.rate.speak <= rate.speak'
    BY <1>3, <1>5, <2>2, <2>3
  <2> QED
    BY <2>4, <2>5, <2>6, <2>7 DEF CountsAreClose
<1>7. ArtifactsAreWritten' /\ AnsweredArtifactStands'
  BY <1>1, <1>2, <1>4 DEF ArtifactsAreWritten, AnsweredArtifactStands
<1>8. Up /\ process.guarded
  BY <1>1, ThreadServes
<1> QED
  BY <1>1, <1>2, <1>4, <1>5, <1>6, <1>7, <1>8, ServingMove

LEMMA RestoreInv ==
    ASSUME GatewayInv, Restore
    PROVE  GatewayInv'
<1> USE DEF GatewayInv, GatewayTyped
<1>1. /\ Up /\ UNCHANGED <<volume, process, thread, second, marks>>
      /\ audits' \subseteq audits \cup Origin
      /\ \/ /\ restore.step = "free" /\ process.guarded /\ snapshot' = rate
            /\ restore' = [restore EXCEPT !.step = "read"] /\ UNCHANGED rate
         \/ /\ restore.step = "read" /\ restore' = [step |-> "apply", rate |-> snapshot]
            /\ UNCHANGED <<snapshot, rate>>
         \/ /\ restore.step = "apply" /\ rate' = restore.rate /\ restore' = NoRestore
            /\ UNCHANGED snapshot
  BY DEF Restore, Ready, Origin
<1>2. Up /\ process.guarded
  BY <1>1 DEF NothingServed, NoRestore
<1>3. rate \in Counts /\ snapshot \in Counts /\ DOMAIN volume.metadata \subseteq Thread
  BY DEF GatewayTypeOK
<1>4. /\ Limit \in Nat /\ rate.speak \in Nat /\ Cardinality(Thread) \in Nat
      /\ Cardinality(Admitting) \in Nat /\ snapshot.speak \in Nat /\ restore.rate.speak \in Nat
  BY GatewayFacts DEF Counts
<1>5. NoRequest \in Counts
  BY <1>4 DEF NoRequest, Counts
<1>6. /\ rate' \in Counts /\ snapshot' \in Counts
      /\ restore' \in [step : {"free", "read", "apply"}, rate : Counts]
  BY <1>1, <1>3, <1>5 DEF NoRestore
<1>7. CountsAreClose'
  <2>1. Admitting' = Admitting
    BY <1>1 DEF Admitting
  <2> QED
    BY <1>1, <1>4, <2>1 DEF CountsAreClose, NoRestore
<1>8. ArtifactsAreWritten' /\ AnsweredArtifactStands'
  BY <1>1 DEF ArtifactsAreWritten, AnsweredArtifactStands
<1>9. audits' \subseteq Origin
  BY <1>1
<1> QED
  BY <1>1, <1>2, <1>3, <1>6, <1>7, <1>8, <1>9, ServingMove

LEMMA OwnerVoiceInv ==
    ASSUME GatewayInv, OwnerVoice
    PROVE  GatewayInv'
<1> USE DEF GatewayInv, GatewayTyped
<1>1. /\ audits' \in {audits \cup {"owner"}, {"owner"}}
      /\ UNCHANGED <<volume, snapshot, process, rate, thread, restore, second, marks>>
  BY DEF OwnerVoice, Audited
<1>2. audits' \subseteq Origin /\ ("gated" \in audits' => "gated" \in audits)
  BY <1>1 DEF Origin
<1>3. rate \in Counts /\ snapshot \in Counts /\ DOMAIN volume.metadata \subseteq Thread
  BY DEF GatewayTypeOK
<1>4. CountsAreClose'
  BY <1>1 DEF CountsAreClose, Admitting
<1>5. ArtifactsAreWritten' /\ AnsweredArtifactStands'
  BY <1>1 DEF ArtifactsAreWritten, AnsweredArtifactStands
<1> QED
  BY <1>1, <1>2, <1>3, <1>4, <1>5, ServingMove

LEMMA PruneInv ==
    ASSUME GatewayInv, NEW t \in Thread, Prune(t)
    PROVE  GatewayInv'
<1> USE DEF GatewayInv, GatewayTyped
<1> DEFINE old == {a \in DOMAIN volume.metadata : Expired(volume.metadata[a])}
           kept == [a \in DOMAIN volume.metadata \ old |-> volume.metadata[a]]
<1>1. /\ thread[t].step = "prune"
      /\ UNCHANGED <<snapshot, process, rate, audits, restore, second, marks>>
      /\ \/ /\ volume' = [volume EXCEPT !.metadata = kept, !.wavs = volume.wavs \ old]
            /\ thread' = [thread EXCEPT ![t] = [step |-> "wav", expiry |-> second + ArtifactTTL]]
         \/ thread' = [thread EXCEPT ![t] = Untaken] /\ UNCHANGED volume
  BY DEF Prune, ThreadEnds
<1>2. second \in Nat /\ ArtifactTTL \in Nat /\ rate \in Counts /\ snapshot \in Counts
  BY GatewayFacts DEF GatewayTypeOK
<1>3. /\ thread' \in [Thread -> Calls]
      /\ thread[t].step' \in {"wav", "free"}
      /\ \A s \in Thread \ {t} : thread[s]' = thread[s]
  BY <1>1, <1>2 DEF Untaken, Calls
<1>4. DOMAIN volume.metadata \subseteq Thread /\ t \notin DOMAIN volume.metadata
  BY <1>1 DEF GatewayTypeOK, ArtifactsAreWritten
<1>5. /\ volume' \in [marker : Nat, evidence : Attestation, wavs : SUBSET Thread,
                      metadata : [DOMAIN volume.metadata' -> Nat]]
      /\ DOMAIN volume.metadata' \subseteq DOMAIN volume.metadata
      /\ \A a \in DOMAIN volume.metadata' : volume.metadata[a]' = volume.metadata[a]
      /\ \A a \in DOMAIN volume.metadata : ~Expired(volume.metadata[a]) => a \in DOMAIN volume.metadata'
      /\ volume.wavs' = volume.wavs \/ volume.wavs' = volume.wavs \ old
      /\ volume.marker' = volume.marker /\ volume.evidence' = volume.evidence
  <2>1. CASE UNCHANGED volume
    BY <2>1
  <2>2. CASE volume' = [volume EXCEPT !.metadata = kept, !.wavs = volume.wavs \ old]
    <3>1. /\ kept \in [DOMAIN volume.metadata \ old -> Nat]
          /\ \A a \in DOMAIN volume.metadata \ old : kept[a] = volume.metadata[a]
      OBVIOUS
    <3>2. \A a \in DOMAIN volume.metadata : ~Expired(volume.metadata[a]) => a \notin old
      OBVIOUS
    <3> HIDE DEF kept, old
    <3>3. /\ volume' \in [marker : Nat, evidence : Attestation, wavs : SUBSET Thread,
                          metadata : [DOMAIN volume.metadata \ old -> Nat]]
          /\ volume.metadata' = kept /\ volume.wavs' = volume.wavs \ old
          /\ volume.marker' = volume.marker /\ volume.evidence' = volume.evidence
      BY <2>2, <3>1
    <3>4. DOMAIN volume.metadata' = DOMAIN volume.metadata \ old
      BY <3>1, <3>3
    <3> QED
      BY <3>1, <3>2, <3>3, <3>4
  <2> QED
    BY <1>1, <2>1, <2>2
<1>6. \A a \in old : a \in Thread /\ thread[a].step = "answered" /\ thread[a].expiry < second
  BY <1>4 DEF Expired, ArtifactsAreWritten
<1> HIDE DEF old
<1>7. CountsAreClose'
  <2>1. Admitting' = Admitting
    BY <1>1, <1>3, AdmittingMove
  <2> QED
    BY <1>1, <2>1 DEF CountsAreClose
<1>8. ArtifactsAreWritten'
  <2>1. ASSUME NEW a \in DOMAIN volume.metadata'
        PROVE  thread[a].step' = "answered" /\ volume.metadata[a]' = thread[a].expiry'
    <3>1. a # t /\ a \in Thread /\ a \in DOMAIN volume.metadata
      BY <1>4, <1>5
    <3> QED
      BY <1>3, <1>5, <3>1 DEF ArtifactsAreWritten
  <2>2. ASSUME NEW s \in Thread, thread[s].step' = "metadata" PROVE s \in volume.wavs'
    <3>1. s # t /\ thread[s].step = "metadata"
      BY <1>3, <2>2
    <3>2. s \in volume.wavs /\ s \notin old
      BY <1>6, <3>1 DEF ArtifactsAreWritten
    <3> QED
      BY <1>5, <3>2
  <2> QED
    BY <2>1, <2>2 DEF ArtifactsAreWritten
<1>9. AnsweredArtifactStands'
  <2> SUFFICES ASSUME NEW s \in Thread, thread[s].step' = "answered", second <= thread[s].expiry'
               PROVE  s \in volume.wavs' /\ s \in DOMAIN volume.metadata'
    BY <1>1 DEF AnsweredArtifactStands
  <2>1. s # t /\ thread[s].step = "answered" /\ second <= thread[s].expiry
    BY <1>3
  <2>2. s \in volume.wavs /\ s \in DOMAIN volume.metadata /\ thread[s].expiry \in Nat
    BY <2>1 DEF AnsweredArtifactStands, Calls
  <2>3. s \notin old
    BY <1>2, <1>6, <2>1, <2>2
  <2>4. ~Expired(volume.metadata[s])
    BY <1>2, <2>1, <2>2 DEF Expired, ArtifactsAreWritten
  <2> QED
    BY <1>5, <2>2, <2>3, <2>4
<1>10. Up /\ process.guarded
  BY <1>1, ThreadServes
<1>11. DOMAIN volume.metadata' \subseteq Thread
  BY <1>4, <1>5
<1> QED
  BY <1>1, <1>2, <1>3, <1>5, <1>7, <1>8, <1>9, <1>10, <1>11, ServingMove

LEMMA WriteWavInv ==
    ASSUME GatewayInv, NEW t \in Thread, WriteWav(t)
    PROVE  GatewayInv'
<1> USE DEF GatewayInv, GatewayTyped
<1>1. /\ thread[t].step = "wav"
      /\ volume' = [volume EXCEPT !.wavs = volume.wavs \cup {t}]
      /\ thread' = [thread EXCEPT ![t].step = "metadata"]
      /\ UNCHANGED <<snapshot, process, rate, audits, restore, second, marks>>
  BY DEF WriteWav, ThreadGoes
<1>2. /\ thread' \in [Thread -> Calls] /\ thread[t].step' = "metadata"
      /\ \A s \in Thread \ {t} : thread[s]' = thread[s]
  BY <1>1, ThreadMove
<1>3. /\ volume' \in [marker : Nat, evidence : Attestation, wavs : SUBSET Thread,
                      metadata : [DOMAIN volume.metadata -> Nat]]
      /\ volume.metadata' = volume.metadata /\ volume.wavs' = volume.wavs \cup {t}
      /\ volume.marker' = volume.marker /\ volume.evidence' = volume.evidence
  BY <1>1
<1>4. rate \in Counts /\ snapshot \in Counts /\ DOMAIN volume.metadata \subseteq Thread
  BY DEF GatewayTypeOK
<1>5. CountsAreClose'
  <2>1. Admitting' = Admitting
    BY <1>1, <1>2, AdmittingMove
  <2> QED
    BY <1>1, <2>1 DEF CountsAreClose
<1>6. ArtifactsAreWritten' /\ AnsweredArtifactStands'
  BY <1>1, <1>2, <1>3, <1>4 DEF ArtifactsAreWritten, AnsweredArtifactStands
<1>7. Up /\ process.guarded
  BY <1>1, ThreadServes
<1> QED
  BY <1>1, <1>2, <1>3, <1>4, <1>5, <1>6, <1>7, ServingMove

LEMMA WriteMetadataInv ==
    ASSUME GatewayInv, NEW t \in Thread, WriteMetadata(t)
    PROVE  GatewayInv'
<1> USE DEF GatewayInv, GatewayTyped
<1> DEFINE more == [a \in {t} \cup DOMAIN volume.metadata |->
                      IF a = t THEN thread[t].expiry ELSE volume.metadata[a]]
<1>1. /\ thread[t].step = "metadata"
      /\ volume' = [volume EXCEPT !.metadata = more]
      /\ thread' = [thread EXCEPT ![t].step = "answered"]
      /\ audits' \in Audited("gated")
      /\ UNCHANGED <<snapshot, process, rate, restore, second, marks>>
  BY DEF WriteMetadata, ThreadGoes
<1>2. /\ thread' \in [Thread -> Calls] /\ thread[t].step' = "answered"
      /\ thread[t].expiry' = thread[t].expiry
      /\ \A s \in Thread \ {t} : thread[s]' = thread[s]
  BY <1>1, ThreadMove
<1>3. thread[t].expiry \in Nat
  BY DEF Calls
<1>4. rate \in Counts /\ snapshot \in Counts /\ DOMAIN volume.metadata \subseteq Thread
  BY DEF GatewayTypeOK
<1>m. more \in [{t} \cup DOMAIN volume.metadata -> Nat]
  BY <1>3
<1>5. /\ volume.metadata' = more /\ volume.wavs' = volume.wavs
      /\ volume.marker' = volume.marker /\ volume.evidence' = volume.evidence
      /\ volume' \in [marker : Nat, evidence : Attestation, wavs : SUBSET Thread,
                      metadata : [{t} \cup DOMAIN volume.metadata -> Nat]]
  <2> HIDE DEF more
  <2> QED
    BY <1>1, <1>m
<1>6. DOMAIN volume.metadata' = {t} \cup DOMAIN volume.metadata
  BY <1>5
<1>7. audits' \subseteq Origin
  BY <1>1 DEF Audited, Origin
<1>8. CountsAreClose'
  <2>1. Admitting' = Admitting
    BY <1>1, <1>2, AdmittingMove
  <2> QED
    BY <1>1, <2>1 DEF CountsAreClose
<1>v. /\ volume.metadata[t]' = thread[t].expiry
      /\ \A a \in DOMAIN volume.metadata : a # t => volume.metadata[a]' = volume.metadata[a]
  BY <1>5
<1> HIDE DEF more
<1>9. ArtifactsAreWritten'
  <2>1. ASSUME NEW a \in DOMAIN volume.metadata'
        PROVE  thread[a].step' = "answered" /\ volume.metadata[a]' = thread[a].expiry'
    BY <1>2, <1>4, <1>6, <1>v DEF ArtifactsAreWritten
  <2>2. ASSUME NEW s \in Thread, thread[s].step' = "metadata" PROVE s \in volume.wavs'
    BY <1>2, <1>5, <2>2 DEF ArtifactsAreWritten
  <2> QED
    BY <2>1, <2>2 DEF ArtifactsAreWritten
<1>10. AnsweredArtifactStands'
  <2> SUFFICES ASSUME NEW s \in Thread, thread[s].step' = "answered", second <= thread[s].expiry'
               PROVE  s \in volume.wavs' /\ s \in DOMAIN volume.metadata'
    BY <1>1 DEF AnsweredArtifactStands
  <2>1. CASE s = t
    BY <1>1, <1>5, <1>6, <2>1 DEF ArtifactsAreWritten
  <2>2. CASE s # t
    BY <1>2, <1>5, <1>6, <2>2 DEF AnsweredArtifactStands
  <2> QED
    BY <2>1, <2>2
<1>11. Up /\ process.guarded
  BY <1>1, ThreadServes
<1>12. /\ DOMAIN volume.metadata' \subseteq Thread
       /\ volume' \in [marker : Nat, evidence : Attestation, wavs : SUBSET Thread,
                       metadata : [DOMAIN volume.metadata' -> Nat]]
  BY <1>4, <1>5, <1>6
<1> QED
  BY <1>1, <1>2, <1>4, <1>5, <1>7, <1>8, <1>9, <1>10, <1>11, <1>12, ServingMove

LEMMA FetchInv ==
    ASSUME GatewayInv, NEW t \in Thread, Fetch(t)
    PROVE  GatewayInv'
<1> USE DEF GatewayInv, GatewayTyped
<1> DEFINE fewer == [a \in DOMAIN volume.metadata \ {t} |-> volume.metadata[a]]
<1>1. /\ t \in DOMAIN volume.metadata /\ volume.metadata[t] < second
      /\ volume' = [volume EXCEPT !.wavs = volume.wavs \ {t}, !.metadata = fewer]
      /\ UNCHANGED <<snapshot, process, rate, audits, thread, restore, second, marks>>
  BY DEF Fetch, Expired, Requests
<1>2. rate \in Counts /\ snapshot \in Counts /\ DOMAIN volume.metadata \subseteq Thread
  BY DEF GatewayTypeOK
<1>m. fewer \in [DOMAIN volume.metadata \ {t} -> Nat]
  OBVIOUS
<1>3. /\ volume.metadata' = fewer /\ volume.wavs' = volume.wavs \ {t}
      /\ volume.marker' = volume.marker /\ volume.evidence' = volume.evidence
      /\ volume' \in [marker : Nat, evidence : Attestation, wavs : SUBSET Thread,
                      metadata : [DOMAIN volume.metadata \ {t} -> Nat]]
  <2> HIDE DEF fewer
  <2> QED
    BY <1>1, <1>m
<1>4. DOMAIN volume.metadata' = DOMAIN volume.metadata \ {t}
  BY <1>3
<1>5. thread[t].step = "answered" /\ thread[t].expiry < second /\ thread[t].expiry \in Nat
  BY <1>1, <1>2 DEF ArtifactsAreWritten, Calls
<1>6. CountsAreClose' /\ ArtifactsAreWritten'
  BY <1>1, <1>3, <1>4, <1>5 DEF CountsAreClose, Admitting, ArtifactsAreWritten
<1>7. AnsweredArtifactStands'
  <2> SUFFICES ASSUME NEW s \in Thread, thread[s].step = "answered", second <= thread[s].expiry
               PROVE  s \in volume.wavs' /\ s \in DOMAIN volume.metadata'
    BY <1>1 DEF AnsweredArtifactStands
  <2>1. s # t
    BY <1>5
  <2> QED
    BY <1>3, <1>4, <2>1 DEF AnsweredArtifactStands
<1>8. /\ DOMAIN volume.metadata' \subseteq Thread
      /\ volume' \in [marker : Nat, evidence : Attestation, wavs : SUBSET Thread,
                      metadata : [DOMAIN volume.metadata' -> Nat]]
  BY <1>2, <1>3, <1>4
<1> QED
  BY <1>1, <1>2, <1>3, <1>6, <1>7, <1>8, ServingMove

LEMMA GatewayStep ==
    ASSUME GatewayInv, GatewayNext
    PROVE  GatewayInv'
BY BootInv, SelfTestInv, WriteMarkerInv, AttestInv, GatewayCrashInv, PassSecondInv, GatedSolveInv,
   SpeakInv, AdmitInv, PruneInv, WriteWavInv, WriteMetadataInv, FetchInv, OwnerVoiceInv,
   RestoreInv
   DEF GatewayNext

LEMMA GatewayServes ==
    ASSUME GatewayInv
    PROVE  GatewayHolds
<1>1. UnattestedIsInert
  BY DEF GatewayInv, NothingServed, UnattestedIsInert
<1>2. QuotaIsNearlyKept
  <2>1. GatewayTyped /\ rate.speak + Cardinality(Admitting) <= Limit + Cardinality(Thread) - 1
    BY DEF GatewayInv, CountsAreClose
  <2> QED
    BY <2>1, GatewayFacts DEF QuotaIsNearlyKept
<1> QED
  BY <1>1, <1>2 DEF GatewayInv, GatewayHolds

-----------------------------------------------------------------------------
(* The council. *)

\* The least of a set of numbers that are not below lo.
LEMMA MinFacts ==
    ASSUME NEW S \in SUBSET Int, S # {}, NEW lo \in Int, \A x \in S : lo <= x
    PROVE  Min(S) \in S /\ \A x \in S : Min(S) <= x
<1> DEFINE T == {x - lo : x \in S}
<1>0. \A x \in S : x - lo \in Nat
  OBVIOUS
<1>1. T \in SUBSET Nat /\ T # {}
  BY <1>0
<1>2. PICK m \in T : \A y \in T : m <= y
  BY <1>1, LeastNatural
<1>3. PICK x \in S : m = x - lo
  BY <1>2
<1>4. ASSUME NEW y \in S PROVE x <= y
  <2>1. m <= y - lo
    BY <1>2
  <2> QED
    BY <1>3, <2>1
<1> QED
  BY <1>3, <1>4 DEF Min

\* A plain text is a text that says nothing the gates look for.
LEMMA PlainFacts ==
    ASSUME NEW n \in -2..100
    PROVE  /\ Plain(n) \in CouncilText /\ Plain(n).confidence = n
           /\ Plain(n).universal = FALSE /\ Plain(n).rootCause = FALSE /\ Plain(n).gated = FALSE
BY DEF Plain, CouncilText

LEMMA NoTextFacts ==
    /\ NoText \in CouncilText /\ NoText.confidence = -1
    /\ NoText.universal = FALSE /\ NoText.rootCause = FALSE /\ NoText.gated = FALSE
<1>1. NoNumber = -1 /\ NoNumber \in -2..100
  BY DEF NoNumber
<1> QED
  BY <1>1, PlainFacts DEF NoText

LEMMA InitCouncil == CouncilInit => CouncilInv
<1> SUFFICES ASSUME CouncilInit PROVE CouncilInv
  OBVIOUS
<1>1. NewCall \in CouncilCalls /\ NewCall.step = "new" /\ NewCall.decision = FALSE
  BY NoTextFacts DEF NewCall, CouncilCalls
<1>2. solves = [s \in Solve |-> NewCall] /\ recorded = {}
  BY DEF CouncilInit
<1> QED
  BY <1>1, <1>2 DEF CouncilInv, CouncilTypeOK, CandidatePassed, VerdictsAreBounded

\* One call moves; the others stay what they were.
LEMMA CouncilMove ==
    ASSUME CouncilInv, NEW s \in Solve, NEW new \in CouncilCalls, Goes(s, new),
           recorded \subseteq recorded', recorded' \subseteq Solve,
           CandidatePassed(s)',
           solves[s].step' \in {"record", "answered"} =>
             VerdictIsBounded(s)' /\ new.verdict.confidence \in 0..100
    PROVE  CouncilInv'
<1>1. solves \in [Solve -> CouncilCalls]
  BY DEF CouncilInv
<1>2. /\ solves' \in [Solve -> CouncilCalls] /\ solves'[s] = new
      /\ \A t \in Solve \ {s} : solves'[t] = solves[t]
  BY <1>1 DEF Goes
<1>3. ASSUME NEW t \in Solve PROVE CandidatePassed(t)'
  <2>1. CASE t # s
    <3>1. solves'[t] = solves[t] /\ CandidatePassed(t)
      BY <1>2, <2>1 DEF CouncilInv
    <3> QED
      BY <3>1 DEF CandidatePassed, Calculations, ReportsOf
  <2> QED
    BY <2>1
<1>4. ASSUME NEW t \in Solve, solves'[t].step \in {"record", "answered"}
      PROVE  VerdictIsBounded(t)' /\ solves'[t].verdict.confidence \in 0..100
  <2>1. CASE t # s
    <3>1. solves'[t] = solves[t] /\ VerdictIsBounded(t) /\ solves[t].verdict.confidence \in 0..100
      BY <1>2, <1>4, <2>1 DEF CouncilInv, VerdictsAreBounded, CouncilTypeOK
    <3> QED
      BY <3>1 DEF VerdictIsBounded, Calculations, ReportsOf
  <2> QED
    BY <1>2, <1>4, <2>1
<1>5. CouncilTypeOK'
  BY <1>2, <1>4 DEF CouncilTypeOK, CouncilCalls
<1> QED
  BY <1>2, <1>3, <1>4, <1>5 DEF CouncilInv, VerdictsAreBounded

LEMMA ConsiderInv ==
    ASSUME CouncilInv, NEW s \in Solve, NEW p \in Problems, Consider(s, p)
    PROVE  CouncilInv'
<1> DEFINE next == IF Evaluate(p) = "BLOCK" THEN "govern" ELSE "generate"
           certain == Plain(100)
           new == [NewCall EXCEPT !.step = next, !.problem = p, !.disposition = Evaluate(p),
                                  !.candidate = certain]
<1>1. solves[s].step = "new" /\ Goes(s, new) /\ recorded' = recorded
  BY DEF Consider
<1>2. Evaluate(p) \in {"BLOCK", "ESCALATE", "ALLOW"}
  BY DEF Evaluate
<1>3. /\ certain \in CouncilText
      /\ certain.universal = FALSE /\ certain.rootCause = FALSE /\ certain.gated = FALSE
  BY PlainFacts, 100 \in -2..100
<1>n. next \in {"govern", "generate"} /\ (next = "generate" => Evaluate(p) # "BLOCK")
  OBVIOUS
<1> HIDE DEF next, certain
<1>t. NoText \in CouncilText
  BY NoTextFacts
<1>4. /\ new \in CouncilCalls /\ new.disposition = Evaluate(p) /\ new.reports = {}
      /\ new.step = next
      /\ new.judged = 0 /\ new.candidate = certain /\ new.decision = FALSE
  <2>1. NewCall \in CouncilCalls /\ NewCall.judged = 0 /\ NewCall.decision = FALSE /\ NewCall.reports = {}
    BY <1>t DEF NewCall, CouncilCalls
  <2>2. next \in {"new", "generate", "correct", "govern", "record", "answered", "failed"}
    BY <1>n
  <2>3. p \in Problems \cup {NoProblem}
    OBVIOUS
  <2> QED
    BY <1>2, <1>3, <2>1, <2>2, <2>3 DEF CouncilCalls
<1> HIDE DEF new
<1>5. solves'[s] = new /\ recorded \subseteq Solve
  BY <1>1, <1>4 DEF CouncilInv, Goes
<1>6. CandidatePassed(s)'
  BY <1>2, <1>3, <1>4, <1>5, <1>n DEF CandidatePassed, GateAllows
<1> QED
  BY <1>1, <1>2, <1>4, <1>5, <1>6, <1>n, CouncilMove

LEMMA ReportInv ==
    ASSUME CouncilInv, NEW s \in Solve, NEW n \in AllSpecialists, Report(s, n)
    PROVE  CouncilInv'
<1>1. /\ solves[s].step = "generate" /\ recorded' = recorded
      /\ \E r \in AllReports : Goes(s, [solves[s] EXCEPT !.reports = solves[s].reports \cup {<<n, r>>}])
  <2>1. PICK r \in (IF n \in Configured THEN Reports[n] ELSE {}) \cup {Unreported} :
          Goes(s, [solves[s] EXCEPT !.reports = solves[s].reports \cup {<<n, r>>}])
    BY DEF Report
  <2>2. r \in AllReports
    <3>1. CASE r = Unreported
      BY <3>1 DEF AllReports
    <3>2. CASE n \in Configured /\ r \in Reports[n]
      <4>1. Reports[n] \in {Reports[m] : m \in Configured}
        BY <3>2
      <4>2. r \in UNION {Reports[m] : m \in Configured}
        BY <3>2, <4>1
      <4> QED
        BY <4>2 DEF AllReports
    <3> QED
      BY <3>1, <3>2
  <2> QED
    BY <2>1, <2>2 DEF Report
<1>2. PICK r \in AllReports : Goes(s, [solves[s] EXCEPT !.reports = solves[s].reports \cup {<<n, r>>}])
  BY <1>1
<1> DEFINE new == [solves[s] EXCEPT !.reports = solves[s].reports \cup {<<n, r>>}]
<1>3. solves[s] \in CouncilCalls /\ solves \in [Solve -> CouncilCalls] /\ recorded \subseteq Solve
  BY DEF CouncilInv
<1>4. /\ new \in CouncilCalls /\ new.step = "generate" /\ new.disposition = solves[s].disposition
      /\ new.decision = solves[s].decision
  BY <1>1, <1>3 DEF CouncilCalls
<1>5. Goes(s, new)
  BY <1>2
<1> HIDE DEF new
<1>6. solves'[s] = new
  BY <1>3, <1>5 DEF Goes
<1>7. CandidatePassed(s)
  BY DEF CouncilInv
<1>8. CandidatePassed(s)'
  BY <1>1, <1>4, <1>6, <1>7 DEF CandidatePassed
<1> QED
  BY <1>1, <1>3, <1>4, <1>5, <1>6, <1>8, CouncilMove

\* What the judge answers names no root cause that telemetry alone suggests, and
\* what the gate wrote in its place is capped.
LEMMA SynthesizedFacts ==
    ASSUME NEW p, NEW c \in Synthesized(p)
    PROVE  c \in CouncilText /\ ~(c.rootCause /\ p.unverified) /\ (c.gated => c.confidence <= 20)
<1>1. NoText \in CouncilText /\ NoText.rootCause = FALSE /\ NoText.gated = FALSE
  BY NoTextFacts
<1>2. ASSUME NEW d \in Candidates
      PROVE  LET g == IoTGate(p, d)
             IN g \in CouncilText /\ ~(g.rootCause /\ p.unverified) /\ (g.gated => g.confidence <= 20)
  <2>1. d \in CouncilText /\ d.confidence \in -2..100 /\ d.gated = FALSE
    BY CouncilAssumption DEF CouncilText
  <2> DEFINE n == IF d.confidence = NaN THEN NaN ELSE Min({d.confidence, 20})
             g == [Plain(n) EXCEPT !.gated = TRUE]
  <2>2. n \in -2..20
    <3> DEFINE M == {d.confidence, 20}
    <3>1. M \in SUBSET Int /\ M # {} /\ -2 \in Int /\ \A x \in M : -2 <= x
      BY <2>1
    <3> HIDE DEF M
    <3>2. Min(M) \in M /\ \A x \in M : Min(M) <= x
      BY <3>1, MinFacts
    <3>3. Min(M) \in -2..20
      BY <2>1, <3>2 DEF M
    <3> QED
      BY <2>1, <3>3 DEF M, NaN
  <2>3. IoTGate(p, d) \in {d, NoText, g}
        /\ (IoTGate(p, d) = d => ~(p.unverified /\ d.rootCause) \/ d \in {NoText, g})
    BY DEF IoTGate
  <2> HIDE DEF n
  <2>4. g \in CouncilText /\ g.rootCause = FALSE /\ g.confidence = n
    <3>1. Plain(n) \in CouncilText /\ Plain(n).rootCause = FALSE /\ Plain(n).confidence = n
      BY <2>2, PlainFacts, n \in -2..100
    <3> QED
      BY <3>1 DEF CouncilText
  <2> HIDE DEF g
  <2> QED
    BY <1>1, <2>1, <2>2, <2>3, <2>4
<1> QED
  BY <1>1, <1>2 DEF Synthesized

LEMMA SynthesizeInv ==
    ASSUME CouncilInv, NEW s \in Solve, Synthesize(s)
    PROVE  CouncilInv'
<1>1. PICK c \in Synthesized(solves[s].problem) :
        /\ solves[s].step = "generate" /\ recorded' = recorded
        /\ LET allowed == c = NoText \/ GateAllows(c, Calculations(s))
           IN Goes(s, [solves[s] EXCEPT !.step = IF allowed THEN "govern" ELSE "correct",
                                        !.judged = 1, !.candidate = c, !.allowed = allowed])
  BY DEF Synthesize
<1> DEFINE allowed == c = NoText \/ GateAllows(c, Calculations(s))
           next == IF allowed THEN "govern" ELSE "correct"
           new == [solves[s] EXCEPT !.step = next, !.judged = 1, !.candidate = c, !.allowed = allowed]
<1>2. Goes(s, new)
  BY <1>1
<1>3. solves[s] \in CouncilCalls /\ solves \in [Solve -> CouncilCalls] /\ recorded \subseteq Solve
  BY DEF CouncilInv
<1>4. c \in CouncilText /\ ~(c.rootCause /\ solves[s].problem.unverified)
  BY SynthesizedFacts
<1>g. c.gated => c.confidence <= 20
  BY SynthesizedFacts
<1>5. allowed \in BOOLEAN /\ (allowed => GateAllows(c, Calculations(s)))
  BY NoTextFacts DEF GateAllows
<1>n. next \in {"govern", "correct"} /\ (next = "govern" => allowed)
  OBVIOUS
<1> HIDE DEF allowed, next
<1>a. PICK a \in BOOLEAN : a = allowed
  BY <1>5
<1>6. /\ new \in CouncilCalls /\ new.step = next
      /\ new.disposition = solves[s].disposition /\ new.decision = solves[s].decision
      /\ new.candidate = c /\ new.problem = solves[s].problem /\ new.reports = solves[s].reports
  <2>1. next \in {"new", "generate", "correct", "govern", "record", "answered", "failed"}
    BY <1>n
  <2>2. new = [solves[s] EXCEPT !.step = next, !.judged = 1, !.candidate = c, !.allowed = a]
    BY <1>a
  <2>3. 1 \in 0..2
    OBVIOUS
  <2> HIDE DEF new
  <2>4. new \in CouncilCalls
    BY <1>3, <1>4, <2>1, <2>2, <2>3 DEF CouncilCalls
  <2> QED
    BY <1>3, <2>2, <2>4 DEF CouncilCalls
<1> HIDE DEF new
<1>7. solves'[s] = new
  BY <1>2, <1>3 DEF Goes
<1>8. CandidatePassed(s) /\ solves[s].disposition # "BLOCK"
  BY <1>1 DEF CouncilInv, CandidatePassed
<1>9. Calculations(s)' = Calculations(s)
  BY <1>6, <1>7 DEF Calculations, ReportsOf
<1>10. CandidatePassed(s)'
  BY <1>1, <1>g, <1>4, <1>5, <1>6, <1>7, <1>8, <1>9, <1>n DEF CandidatePassed, GateAllows
<1> QED
  BY <1>1, <1>2, <1>3, <1>6, <1>7, <1>10, <1>n, CouncilMove

LEMMA CorrectInv ==
    ASSUME CouncilInv, NEW s \in Solve, Correct(s)
    PROVE  CouncilInv'
<1>1. PICK c \in Synthesized(solves[s].problem) :
        solves[s].step = "correct" /\ recorded' = recorded /\ Goes(s, Correction(s, c))
  BY DEF Correct
<1> DEFINE good == c # NoText /\ GateAllows(c, Calculations(s))
           kept == IF good THEN c ELSE FailClosed
           new == [solves[s] EXCEPT !.step = "govern", !.judged = 2, !.allowed = good, !.candidate = kept]
<1>2. Goes(s, new)
  BY <1>1 DEF Correction
<1>3. solves[s] \in CouncilCalls /\ solves \in [Solve -> CouncilCalls] /\ recorded \subseteq Solve
  BY DEF CouncilInv
<1>4. /\ kept \in CouncilText /\ ~(kept.rootCause /\ solves[s].problem.unverified)
      /\ GateAllows(kept, Calculations(s)) /\ (kept.gated => kept.confidence <= 20)
  <2>1. /\ FailClosed \in CouncilText
        /\ FailClosed.rootCause = FALSE /\ FailClosed.universal = FALSE /\ FailClosed.gated = FALSE
    BY PlainFacts, 20 \in -2..100 DEF FailClosed
  <2>2. /\ c \in CouncilText /\ ~(c.rootCause /\ solves[s].problem.unverified)
        /\ c.gated => c.confidence <= 20
    BY SynthesizedFacts
  <2>3. CASE good
    BY <2>2, <2>3
  <2>4. CASE ~good
    BY <2>1, <2>4 DEF GateAllows
  <2> QED
    BY <2>3, <2>4
<1>5. PICK a \in BOOLEAN : a = good
  BY DEF GateAllows
<1>n. new = [solves[s] EXCEPT !.step = "govern", !.judged = 2, !.allowed = a, !.candidate = kept]
  BY <1>5
<1> HIDE DEF good, kept, new
<1>6. 2 \in 0..2
  OBVIOUS
<1>7. new \in CouncilCalls
  BY <1>3, <1>4, <1>n, <1>6 DEF CouncilCalls
<1>8. /\ new.step = "govern" /\ new.disposition = solves[s].disposition
      /\ new.decision = solves[s].decision
      /\ new.candidate = kept /\ new.problem = solves[s].problem /\ new.reports = solves[s].reports
  BY <1>3, <1>n DEF CouncilCalls
<1>9. solves'[s] = new
  BY <1>2, <1>3 DEF Goes
<1>10. CandidatePassed(s) /\ solves[s].disposition # "BLOCK"
  BY <1>1 DEF CouncilInv, CandidatePassed
<1>11. Calculations(s)' = Calculations(s)
  BY <1>8, <1>9 DEF Calculations, ReportsOf
<1>12. CandidatePassed(s)'
  BY <1>1, <1>4, <1>8, <1>9, <1>10, <1>11 DEF CandidatePassed, GateAllows
<1> QED
  BY <1>1, <1>2, <1>3, <1>7, <1>8, <1>9, <1>12, CouncilMove

\* The verdict is the candidate, with its confidence below every ceiling.
LEMMA VerdictFacts ==
    ASSUME NEW s \in Solve, solves[s].candidate \in CouncilText,
           solves[s].candidate = NoText \/ solves[s].candidate.confidence # -1
    PROVE  /\ Verdict(s) \in CouncilText /\ Verdict(s).confidence \in 0..100
           /\ Verdict(s).universal => solves[s].candidate.universal
           /\ Verdict(s).rootCause => solves[s].candidate.rootCause
           /\ \A r \in ReportsOf(s) : \A c \in r.claims : r.success /\ c.sources < 2 =>
                Verdict(s).confidence <= (IF c.sources = 1 THEN 45 ELSE 25)
           /\ (\E r \in ReportsOf(s) : ~r.success) => Verdict(s).confidence <= 50
           /\ solves[s].candidate # NoText /\ ~solves[s].allowed => Verdict(s).confidence <= 20
           /\ Verdict(s).gated => solves[s].candidate.gated /\ solves[s].candidate # NoText
           /\ solves[s].candidate # NoText /\ solves[s].candidate.confidence # NaN =>
                Verdict(s).confidence <= solves[s].candidate.confidence
           /\ solves[s].candidate = NoText =>
                Verdict(s).confidence = (IF \E r \in ReportsOf(s) : r.success THEN 20 ELSE 5)
<1> DEFINE c == solves[s].candidate
           C == Ceilings(ReportsOf(s))
           D == IF solves[s].allowed THEN {} ELSE {20}
           k == Clamped(c.confidence)
           S == {k} \cup C \cup D
           usable == \E r \in ReportsOf(s) : r.success
           n == IF usable THEN 20 ELSE 5
<1>1. CASE c = NoText
  <2>1. n \in {5, 20}
    OBVIOUS
  <2>2. Verdict(s) = [NoText EXCEPT !.confidence = n]
    BY <1>1 DEF Verdict
  <2> HIDE DEF n
  <2>3. /\ Verdict(s) \in CouncilText /\ Verdict(s).confidence = n
        /\ Verdict(s).universal = FALSE /\ Verdict(s).rootCause = FALSE /\ Verdict(s).gated = FALSE
    <3>2. n \in -2..100
      BY <2>1
    <3> QED
      BY <2>2, <3>2, NoTextFacts DEF CouncilText
  <2>4. n = IF \E r \in ReportsOf(s) : r.success THEN 20 ELSE 5
    BY DEF n
  <2> QED
    BY <1>1, <2>1, <2>3, <2>4
<1>2. CASE c # NoText
  <2>1. C \subseteq {25, 45, 50}
    BY DEF Ceilings
  <2>2. /\ k \in 0..100
        /\ c.confidence # NaN => k = c.confidence
    BY <1>2 DEF CouncilText, Clamped, NaN
  <2> HIDE DEF k
  <2>3. S \in SUBSET Int /\ S # {} /\ \A x \in S : 0 <= x
    BY <2>1, <2>2
  <2>4. Min(S) \in S /\ \A x \in S : Min(S) <= x
    BY <2>3, MinFacts
  <2>5. Verdict(s) = [c EXCEPT !.confidence = Min(S)]
    BY <1>2 DEF Verdict, k
  <2>6. \A r \in ReportsOf(s) : \A d \in r.claims : r.success /\ d.sources < 2 =>
          (IF d.sources = 1 THEN 45 ELSE 25) \in C
    <3> SUFFICES ASSUME NEW r \in ReportsOf(s), NEW d \in r.claims, r.success, d.sources < 2
                 PROVE  (IF d.sources = 1 THEN 45 ELSE 25) \in C
      OBVIOUS
    <3>1. (IF d.sources = 1 THEN 45 ELSE 25) \in
            {IF e.sources = 1 THEN 45 ELSE 25 : e \in {f \in r.claims : f.sources < 2}}
      OBVIOUS
    <3>2. r \in {q \in ReportsOf(s) : q.success}
      OBVIOUS
    <3> QED
      BY <3>1, <3>2 DEF Ceilings
  <2>7. (\E r \in ReportsOf(s) : ~r.success) => 50 \in C
    BY DEF Ceilings
  <2>8. k \in S /\ C \subseteq S /\ S \subseteq Int /\ (~solves[s].allowed => 20 \in S)
    BY <2>3
  <2> HIDE DEF S, C
  <2>9. Min(S) \in 0..100
    <3>1. Min(S) \in Int /\ 0 <= Min(S) /\ Min(S) <= k
      BY <2>3, <2>4, <2>8
    <3> QED
      BY <2>2, <3>1
  <2>10. /\ Verdict(s) \in CouncilText /\ Verdict(s).confidence = Min(S)
         /\ Verdict(s).universal = c.universal /\ Verdict(s).rootCause = c.rootCause
         /\ Verdict(s).gated = c.gated
    BY <2>5, <2>9 DEF CouncilText
  <2>11. ~solves[s].allowed => Min(S) <= 20
    BY <2>4, <2>8
  <2>12. c.confidence # NaN => Min(S) <= c.confidence
    BY <2>2, <2>4, <2>8
  <2> QED
    BY <1>2, <2>4, <2>6, <2>7, <2>8, <2>9, <2>10, <2>11, <2>12
<1> QED
  BY <1>1, <1>2

LEMMA FailedCallFacts ==
    /\ FailedCall \in CouncilCalls /\ FailedCall.step = "failed" /\ FailedCall.decision = FALSE
<1>1. NewCall \in CouncilCalls /\ NewCall.decision = FALSE
  BY NoTextFacts DEF NewCall, CouncilCalls
<1> QED
  BY <1>1 DEF FailedCall, CouncilCalls

LEMMA GovernInv ==
    ASSUME CouncilInv, NEW s \in Solve, Govern(s)
    PROVE  CouncilInv'
<1>1. /\ solves[s].step = "govern" /\ recorded' = recorded
      /\ IF solves[s].candidate # NoText /\ solves[s].candidate.confidence = NoNumber
         THEN Goes(s, FailedCall)
         ELSE Goes(s, [solves[s] EXCEPT
                !.step = "record", !.verdict = Verdict(s),
                !.disposition = Authorization(solves[s].problem, solves[s].disposition)])
  BY DEF Govern
<1>2. solves[s] \in CouncilCalls /\ solves \in [Solve -> CouncilCalls] /\ recorded \subseteq Solve
  BY DEF CouncilInv
<1>3. CASE solves[s].candidate # NoText /\ solves[s].candidate.confidence = NoNumber
  <2>1. FailedCall \in CouncilCalls /\ FailedCall.step = "failed" /\ FailedCall.decision = FALSE
    BY FailedCallFacts
  <2>2. Goes(s, FailedCall) /\ solves'[s] = FailedCall
    BY <1>1, <1>2, <1>3 DEF Goes
  <2>3. CandidatePassed(s)'
    BY <2>1, <2>2 DEF CandidatePassed
  <2> QED
    BY <1>1, <1>2, <2>1, <2>2, <2>3, CouncilMove
<1>4. CASE ~(solves[s].candidate # NoText /\ solves[s].candidate.confidence = NoNumber)
  <2> DEFINE v == Verdict(s)
             d == Authorization(solves[s].problem, solves[s].disposition)
             new == [solves[s] EXCEPT !.step = "record", !.verdict = v, !.disposition = d]
  <2>1. Goes(s, new)
    BY <1>1, <1>4
  <2>2. solves[s].candidate \in CouncilText
    BY <1>2 DEF CouncilCalls
  <2>3. /\ v \in CouncilText /\ v.confidence \in 0..100
        /\ v.universal => solves[s].candidate.universal
        /\ v.rootCause => solves[s].candidate.rootCause
        /\ \A r \in ReportsOf(s) : \A c \in r.claims : r.success /\ c.sources < 2 =>
             v.confidence <= (IF c.sources = 1 THEN 45 ELSE 25)
        /\ (\E r \in ReportsOf(s) : ~r.success) => v.confidence <= 50
    BY <1>4, <2>2, VerdictFacts DEF NoNumber
  <2>c. /\ solves[s].candidate # NoText /\ ~solves[s].allowed => v.confidence <= 20
        /\ v.gated => solves[s].candidate.gated /\ solves[s].candidate # NoText
        /\ solves[s].candidate # NoText /\ solves[s].candidate.confidence # NaN =>
             v.confidence <= solves[s].candidate.confidence
        /\ solves[s].candidate = NoText =>
             v.confidence = (IF \E r \in ReportsOf(s) : r.success THEN 20 ELSE 5)
    BY <1>4, <2>2, VerdictFacts DEF NoNumber
  <2>4. /\ d \in {"BLOCK", "ESCALATE", "ALLOW"}
        /\ d = "BLOCK" => solves[s].disposition = "BLOCK"
        /\ solves[s].problem.action /\ solves[s].problem.level < 3 => d # "ALLOW"
    BY <1>2 DEF Authorization, CouncilCalls
  <2> HIDE DEF v, d
  <2>5. new \in CouncilCalls
    BY <1>2, <2>3, <2>4 DEF CouncilCalls
  <2>6. /\ new.step = "record" /\ new.disposition = d /\ new.verdict = v
        /\ new.decision = solves[s].decision /\ new.judged = solves[s].judged
        /\ new.problem = solves[s].problem /\ new.reports = solves[s].reports
        /\ new.candidate = solves[s].candidate /\ new.allowed = solves[s].allowed
    BY <1>2 DEF CouncilCalls
  <2> HIDE DEF new
  <2>7. solves'[s] = new
    BY <1>2, <2>1 DEF Goes
  <2>8. /\ solves[s].disposition = "BLOCK" => solves[s].reports = {} /\ solves[s].judged = 0
        /\ GateAllows(solves[s].candidate, Calculations(s))
        /\ ~(solves[s].candidate.rootCause /\ solves[s].problem.unverified)
        /\ solves[s].candidate.gated => solves[s].candidate.confidence <= 20
        /\ ~solves[s].decision
    BY <1>1 DEF CouncilInv, CandidatePassed
  <2>9. ReportsOf(s)' = ReportsOf(s) /\ Calculations(s)' = Calculations(s)
    BY <2>6, <2>7 DEF Calculations, ReportsOf
  <2>10. v.universal => \A c \in Calculations(s) : c.scope = "law" /\ c.sourced /\ c.current
    BY <2>3, <2>8 DEF GateAllows, Universality
  <2>11. solves[s].judged <= 2
    BY <1>2 DEF CouncilCalls
  <2>d. /\ ~solves[s].allowed => v.confidence <= 20
        /\ v.gated /\ solves[s].candidate.confidence # NaN => v.confidence <= 20
        /\ solves[s].candidate = NoText =>
             v.confidence <= (IF \E r \in ReportsOf(s) : r.success THEN 20 ELSE 5)
    <3>1. v.confidence \in Int /\ solves[s].candidate.confidence \in Int
      BY <2>2, <2>3 DEF CouncilText
    <3>2. CASE solves[s].candidate = NoText
      BY <2>c, <3>1, <3>2
    <3>3. CASE solves[s].candidate # NoText
      BY <2>c, <2>8, <3>1, <3>3
    <3> QED
      BY <3>2, <3>3
  <2>12. VerdictIsBounded(s)'
    BY <2>d, <2>3, <2>4, <2>6, <2>7, <2>8, <2>9, <2>10, <2>11 DEF VerdictIsBounded
  <2>13. CandidatePassed(s)'
    BY <2>6, <2>7, <2>8 DEF CandidatePassed
  <2> QED
    BY <1>1, <1>2, <2>1, <2>3, <2>5, <2>6, <2>12, <2>13, CouncilMove
<1> QED
  BY <1>3, <1>4

LEMMA RecordInv ==
    ASSUME CouncilInv, NEW s \in Solve, Record(s)
    PROVE  CouncilInv'
<1>1. PICK decision \in BOOLEAN :
        /\ Goes(s, [solves[s] EXCEPT !.step = "answered", !.decision = decision])
        /\ recorded' \in {recorded, recorded \cup {s}} /\ (decision => s \in recorded')
  <2>1. solves[s].step = "record" /\ solves \in [Solve -> CouncilCalls] /\ solves[s] \in CouncilCalls
    BY DEF Record, CouncilInv
  <2>2. solves[s].decision \in BOOLEAN /\ (solves[s].decision => s \in recorded)
    BY <2>1 DEF CouncilInv, VerdictsAreBounded, VerdictIsBounded, CouncilCalls
  <2>3. [solves[s] EXCEPT !.step = "answered"]
          = [solves[s] EXCEPT !.step = "answered", !.decision = solves[s].decision]
    BY <2>1 DEF CouncilCalls
  <2>4. CASE recorded' \in {recorded, recorded \cup {s}} /\ Goes(s, [solves[s] EXCEPT !.step = "answered"])
    <3>1. Goes(s, [solves[s] EXCEPT !.step = "answered", !.decision = solves[s].decision])
      BY <2>3, <2>4 DEF Goes
    <3> QED
      BY <2>2, <2>4, <3>1
  <2>5. CASE /\ recorded' = recorded \cup {s}
             /\ Goes(s, [solves[s] EXCEPT !.step = "answered", !.decision = TRUE])
    BY <2>5
  <2> QED
    BY <2>4, <2>5 DEF Record
<1> DEFINE new == [solves[s] EXCEPT !.step = "answered", !.decision = decision]
<1>2. solves[s].step = "record" /\ solves[s] \in CouncilCalls /\ solves \in [Solve -> CouncilCalls]
  BY DEF Record, CouncilInv
<1>3. recorded \subseteq recorded' /\ recorded' \subseteq Solve
  BY <1>1 DEF CouncilInv
<1>4. new \in CouncilCalls
  BY <1>2 DEF CouncilCalls
<1>5. /\ new.step = "answered" /\ new.decision = decision /\ new.disposition = solves[s].disposition
      /\ new.verdict = solves[s].verdict /\ new.judged = solves[s].judged
      /\ new.problem = solves[s].problem /\ new.reports = solves[s].reports
      /\ new.candidate = solves[s].candidate /\ new.allowed = solves[s].allowed
  BY <1>2 DEF CouncilCalls
<1>6. Goes(s, new)
  BY <1>1
<1> HIDE DEF new
<1>7. solves'[s] = new
  BY <1>2, <1>6 DEF Goes
<1>8. ReportsOf(s)' = ReportsOf(s) /\ Calculations(s)' = Calculations(s)
  BY <1>5, <1>7 DEF Calculations, ReportsOf
<1>9. VerdictIsBounded(s) /\ solves[s].verdict.confidence \in 0..100
  BY <1>2 DEF CouncilInv, VerdictsAreBounded, CouncilTypeOK
<1>10. VerdictIsBounded(s)'
  BY <1>1, <1>5, <1>7, <1>8, <1>9 DEF VerdictIsBounded
<1>11. CandidatePassed(s)'
  BY <1>5, <1>7 DEF CandidatePassed
<1> QED
  BY <1>3, <1>4, <1>5, <1>6, <1>9, <1>10, <1>11, CouncilMove

LEMMA CouncilCrashInv ==
    ASSUME CouncilInv, CouncilCrash
    PROVE  CouncilInv'
<1>1. /\ solves' = [s \in Solve |-> IF solves[s].step = "new" THEN solves[s] ELSE FailedCall]
      /\ recorded' = recorded /\ solves \in [Solve -> CouncilCalls] /\ recorded \subseteq Solve
  BY DEF CouncilCrash, CouncilInv
<1>2. FailedCall \in CouncilCalls /\ FailedCall.step = "failed" /\ FailedCall.decision = FALSE
  BY FailedCallFacts
<1>3. solves' \in [Solve -> CouncilCalls] /\ \A s \in Solve : solves'[s].step \in {"new", "failed"}
  BY <1>1, <1>2
<1>4. ASSUME NEW s \in Solve PROVE CandidatePassed(s)'
  <2>1. ~solves'[s].decision
    BY <1>1, <1>2 DEF CouncilInv, CandidatePassed
  <2> QED
    BY <1>3, <2>1 DEF CandidatePassed
<1> QED
  BY <1>1, <1>3, <1>4 DEF CouncilInv, VerdictsAreBounded, CouncilTypeOK

LEMMA CouncilStep ==
    ASSUME CouncilInv, CouncilNext
    PROVE  CouncilInv'
BY ConsiderInv, ReportInv, SynthesizeInv, CorrectInv, GovernInv, RecordInv, CouncilCrashInv
   DEF CouncilNext

-----------------------------------------------------------------------------
(* The devices. *)

LEMMA InitDevices == DevicesInit => DevicesInv
<1> SUFFICES ASSUME DevicesInit PROVE DevicesInv
  OBVIOUS
<1>1. /\ device = [d \in Device |-> {}] /\ telemetry = {} /\ replayIds = {}
      /\ quarantine = [d \in Device |-> <<>>] /\ command = [c \in Command |-> NoCommand]
      /\ acts = <<>> /\ time = 1
  BY DEF DevicesInit
<1>2. LastTime \in Nat \ {0} /\ PerMinuteEvents \in Nat
  BY DevicesAssumption
<1>a. DOMAIN acts = {} /\ \A d \in Device : DOMAIN quarantine[d] = {}
  BY <1>1
<1>3. DevicesTyped
  <2>1. Cardinality({}) = 0 /\ IsFiniteSet({})
    BY FS_EmptySet
  <2>2. DevicesTypeOK
    <3>1. \A d \in Device : device[d] \subseteq Records /\ Cardinality(device[d]) <= 1
      BY <1>1, <2>1
    <3>2. \A c \in Command : command[c].status = "NONE"
      BY <1>1 DEF NoCommand
    <3>3. time \in 1..LastTime
      BY <1>1, <1>2
    <3> QED
      BY <3>1, <3>2, <3>3 DEF DevicesTypeOK
  <2>3. acts \in Seq(Command \X BOOLEAN) /\ quarantine \in [Device -> Seq([at : Nat, until : Nat])]
    BY <1>1
  <2> QED
    BY <1>1, <2>1, <2>2, <2>3 DEF DevicesTyped, NoCommand
<1>4. EventsAreReserved /\ RowsAreOrdered
  BY <1>1 DEF EventsAreReserved, RowsAreOrdered
<1>5. ActsOnce /\ TelemetryIsFresh /\ QuarantineStands
  BY <1>1, <1>a DEF ActsOnce, TelemetryIsFresh, QuarantineStands, NoCommand
<1>6. RateIsKept
  <2>1. \A d \in Device, t \in 1..LastTime : {r \in replayIds : r.device = d /\ r.at \in {t, t + 1}} = {}
    BY <1>1
  <2> QED
    BY <1>2, <2>1, FS_EmptySet DEF RateIsKept
<1> QED
  BY <1>3, <1>4, <1>5, <1>6 DEF DevicesInv, DevicesActOnce

LEMMA RegisterDeviceInv ==
    ASSUME DevicesInv, NEW d \in Device, RegisterDevice(d)
    PROVE  DevicesInv'
<1>1. PICK r \in Records : device' = [device EXCEPT ![d] = {r}]
  BY DEF RegisterDevice
<1>2. UNCHANGED <<telemetry, replayIds, quarantine, command, acts, time>>
  BY DEF RegisterDevice
<1>3. DevicesTyped
  BY DEF DevicesInv
<1>4. Cardinality({r}) = 1
  BY FS_Singleton
<1>5. DevicesTyped'
  <2>1. device \in [Device -> SUBSET Records] /\ \A e \in Device : Cardinality(device[e]) <= 1
    BY <1>3 DEF DevicesTyped, DevicesTypeOK
  <2>2. device' \in [Device -> SUBSET Records] /\ \A e \in Device : device'[e] \in {device[e], {r}}
    BY <1>1, <2>1
  <2>3. \A e \in Device : device'[e] \subseteq Records /\ Cardinality(device'[e]) <= 1
    BY <1>4, <2>1, <2>2
  <2>4. DevicesTypeOK'
    BY <1>2, <1>3, <2>3 DEF DevicesTyped, DevicesTypeOK
  <2> QED
    BY <1>2, <1>3, <2>2, <2>4 DEF DevicesTyped
<1> QED
  BY <1>2, <1>5 DEF DevicesInv, EventsAreReserved, RowsAreOrdered, DevicesActOnce, ActsOnce,
     TelemetryIsFresh, QuarantineStands, RateIsKept

LEMMA MinutePassesInv ==
    ASSUME DevicesInv, MinutePasses
    PROVE  DevicesInv'
<1>1. /\ time < LastTime /\ time' = time + 1
      /\ UNCHANGED <<device, telemetry, replayIds, quarantine, command, acts>>
  BY DEF MinutePasses
<1>2. DevicesTyped /\ RowsAreOrdered
  BY DEF DevicesInv
<1>a. LastTime \in Nat /\ time \in 1..LastTime
  BY <1>2, DevicesAssumption DEF DevicesTyped, DevicesTypeOK
<1>3. time \in 1..LastTime /\ time' \in 1..LastTime /\ 1..time \subseteq 1..time'
  BY <1>1, <1>a
<1>4. DevicesTyped'
  <2>1. telemetry' \subseteq [device : Device, message : Message, stamp : Nat, at : 1..time']
    <3> SUFFICES ASSUME NEW e \in telemetry
                 PROVE  e \in [device : Device, message : Message, stamp : Nat, at : 1..time']
      BY <1>1
    <3> QED
      BY <1>2, <1>3 DEF DevicesTyped
  <2>2. replayIds' \subseteq [device : Device, message : Message, at : 1..time']
    <3> SUFFICES ASSUME NEW e \in replayIds
                 PROVE  e \in [device : Device, message : Message, at : 1..time']
      BY <1>1
    <3> QED
      BY <1>2, <1>3 DEF DevicesTyped
  <2> QED
    BY <1>1, <1>2, <1>3, <2>1, <2>2 DEF DevicesTyped, DevicesTypeOK
<1>5. RowsAreOrdered'
  <2> SUFFICES ASSUME NEW d \in Device, NEW i \in DOMAIN quarantine[d]
               PROVE  /\ quarantine[d][i].at <= time'
                      /\ quarantine[d][i].until \in {Never, quarantine[d][i].at + QuarantineTime}
                      /\ \A j \in DOMAIN quarantine[d] : i <= j => quarantine[d][i].at <= quarantine[d][j].at
    BY <1>1 DEF RowsAreOrdered
  <2>1. quarantine[d][i].at \in Nat
    <3>1. quarantine[d] \in Seq([at : Nat, until : Nat])
      BY <1>2 DEF DevicesTyped
    <3>2. quarantine[d][i] \in [at : Nat, until : Nat]
      <4> DEFINE S == [at : Nat, until : Nat]
      <4>1. quarantine[d] \in Seq(S) /\ i \in DOMAIN quarantine[d]
        BY <3>1
      <4> HIDE DEF S
      <4>2. quarantine[d][i] \in S
        BY <4>1
      <4> QED
        BY <4>2 DEF S
    <3> QED
      BY <3>2
  <2> QED
    BY <1>1, <1>2, <1>3, <2>1 DEF RowsAreOrdered
<1> QED
  BY <1>1, <1>4, <1>5 DEF DevicesInv, EventsAreReserved, DevicesActOnce, ActsOnce,
     TelemetryIsFresh, QuarantineStands, RateIsKept

LEMMA PrepareInv ==
    ASSUME DevicesInv, NEW c \in Command, NEW d \in Device, NEW a \in Action, Prepare(c, d, a)
    PROVE  DevicesInv'
<1>1. /\ command[c].status = "NONE"
      /\ command' = [command EXCEPT ![c] = [status |-> "PREPARED", device |-> d, action |-> a]]
      /\ UNCHANGED <<device, telemetry, replayIds, quarantine, acts, time>>
  BY DEF Prepare
<1>2. DevicesTyped /\ ActsOnce
  BY DEF DevicesInv, DevicesActOnce
<1>3. DevicesTyped'
  BY <1>1, <1>2 DEF DevicesTyped, DevicesTypeOK
<1>4. ActsOnce'
  <2>1. command \in [Command -> [status : {"NONE", "PREPARED", "RESERVED", "COMPLETED", "REJECTED",
                                           "SUBMISSION_UNVERIFIED"},
                                 device : Device \cup {""}, action : Action \cup {""}]]
    BY <1>2 DEF DevicesTyped
  <2>2. /\ command[c].status' = "PREPARED"
        /\ \A x \in Command \ {c} : command[x]' = command[x]
    BY <1>1, <2>1
  <2> QED
    BY <1>1, <1>2, <2>2 DEF ActsOnce
<1> QED
  BY <1>1, <1>3, <1>4 DEF DevicesInv, EventsAreReserved, RowsAreOrdered, DevicesActOnce,
     TelemetryIsFresh, QuarantineStands, RateIsKept

LEMMA ExecuteCommandInv ==
    ASSUME DevicesInv, NEW c \in Command, ExecuteCommand(c)
    PROVE  DevicesInv'
<1>1. PICK sure \in BOOLEAN, o \in Outcomes :
        /\ command' = [command EXCEPT ![c].status = o.status]
        /\ acts' = IF o.acted THEN Append(acts, <<c, sure>>) ELSE acts
  BY DEF ExecuteCommand
<1>2. /\ command[c].status = "PREPARED"
      /\ UNCHANGED <<device, telemetry, replayIds, quarantine, time>>
  BY DEF ExecuteCommand, Executable
<1>3. /\ o.status \in {"COMPLETED", "REJECTED", "SUBMISSION_UNVERIFIED", "RESERVED"}
      /\ o.status = "COMPLETED" => o.acted
      /\ o.status = "REJECTED" => ~o.acted
  BY DEF Outcomes
<1>4. DevicesTyped /\ ActsOnce
  BY DEF DevicesInv, DevicesActOnce
<1>5. /\ acts \in Seq(Command \X BOOLEAN)
      /\ command \in [Command -> [status : {"NONE", "PREPARED", "RESERVED", "COMPLETED", "REJECTED",
                                            "SUBMISSION_UNVERIFIED"},
                                  device : Device \cup {""}, action : Action \cup {""}]]
  BY <1>4 DEF DevicesTyped
<1>6. /\ command[c].status' = o.status
      /\ \A x \in Command \ {c} : command[x]' = command[x]
      /\ command' \in [Command -> [status : {"NONE", "PREPARED", "RESERVED", "COMPLETED", "REJECTED",
                                             "SUBMISSION_UNVERIFIED"},
                                   device : Device \cup {""}, action : Action \cup {""}]]
  BY <1>1, <1>3, <1>5
<1>p. <<c, sure>> \in Command \X BOOLEAN
  OBVIOUS
<1>7. acts' \in Seq(Command \X BOOLEAN)
  <2> DEFINE S == Command \X BOOLEAN
             p == <<c, sure>>
  <2>1. acts \in Seq(S) /\ p \in S /\ acts' = IF o.acted THEN Append(acts, p) ELSE acts
    BY <1>1, <1>5
  <2> HIDE DEF S, p
  <2>2. acts' \in Seq(S)
    BY <2>1
  <2> QED
    BY <2>2 DEF S
<1>8. DevicesTyped'
  BY <1>2, <1>4, <1>6, <1>7 DEF DevicesTyped, DevicesTypeOK
<1>9. \A i \in DOMAIN acts : acts[i][1] # c
  BY <1>2, <1>4 DEF ActsOnce
<1>10. ActsOnce'
  <2>1. CASE o.acted
    <3> DEFINE n == Len(acts) + 1
    <3>1. /\ DOMAIN acts = 1..Len(acts) /\ Len(acts) \in Nat
          /\ DOMAIN acts' = 1..n /\ acts'[n] = <<c, sure>>
          /\ \A i \in DOMAIN acts : acts'[i] = acts[i]
      <4> DEFINE S == Command \X BOOLEAN
                 p == <<c, sure>>
      <4>1. acts \in Seq(S) /\ p \in S /\ acts' = Append(acts, p)
        BY <1>1, <1>5, <2>1
      <4> HIDE DEF S, p
      <4>2. /\ DOMAIN acts = 1..Len(acts) /\ Len(acts) \in Nat
            /\ DOMAIN acts' = 1..n /\ acts'[n] = p
            /\ \A i \in DOMAIN acts : acts'[i] = acts[i]
        BY <4>1
      <4> QED
        BY <4>2 DEF p
    <3>2. \A i \in DOMAIN acts' : i \in DOMAIN acts \/ i = n
      BY <3>1
    <3>3. acts'[n][1] = c /\ n \in DOMAIN acts'
      BY <3>1
    <3> HIDE DEF n
    <3>4. \A i, j \in DOMAIN acts' : acts'[i][1] = acts'[j][1] => i = j
      BY <1>4, <1>9, <3>1, <3>2, <3>3 DEF ActsOnce
    <3>5. ASSUME NEW x \in Command
          PROVE  /\ command[x].status' \in {"NONE", "PREPARED", "REJECTED"} =>
                      ~\E i \in DOMAIN acts' : acts'[i][1] = x
                 /\ command[x].status' = "COMPLETED" => \E i \in DOMAIN acts' : acts'[i][1] = x
      <4>1. CASE x = c
        BY <1>3, <1>6, <2>1, <3>3, <4>1
      <4>2. CASE x # c
        <5>1. command[x]' = command[x]
          BY <1>6, <4>2
        <5>2. (\E i \in DOMAIN acts' : acts'[i][1] = x) <=> (\E i \in DOMAIN acts : acts[i][1] = x)
          <6>1. ASSUME NEW i \in DOMAIN acts', acts'[i][1] = x PROVE \E j \in DOMAIN acts : acts[j][1] = x
            <7>1. i \in DOMAIN acts
              BY <3>2, <3>3, <4>2, <6>1
            <7> QED
              BY <3>1, <6>1, <7>1
          <6>2. ASSUME NEW i \in DOMAIN acts, acts[i][1] = x PROVE \E j \in DOMAIN acts' : acts'[j][1] = x
            <7>1. i \in DOMAIN acts' /\ acts'[i][1] = x
              BY <3>1, <3>4, <6>2 DEF n
            <7> QED
              BY <7>1
          <6> QED
            BY <6>1, <6>2
        <5> QED
          BY <1>4, <5>1, <5>2 DEF ActsOnce
      <4> QED
        BY <4>1, <4>2
    <3> QED
      BY <3>4, <3>5 DEF ActsOnce
  <2>2. CASE ~o.acted
    <3>1. acts' = acts /\ o.status \notin {"COMPLETED", "NONE", "PREPARED"}
      BY <1>1, <1>3, <2>2
    <3>2. ASSUME NEW x \in Command
          PROVE  /\ command[x].status' \in {"NONE", "PREPARED", "REJECTED"} =>
                      ~\E i \in DOMAIN acts : acts[i][1] = x
                 /\ command[x].status' = "COMPLETED" => \E i \in DOMAIN acts : acts[i][1] = x
      <4>1. CASE x = c
        BY <1>6, <1>9, <3>1, <4>1
      <4>2. CASE x # c
        BY <1>4, <1>6, <4>2 DEF ActsOnce
      <4> QED
        BY <4>1, <4>2
    <3>3. \A i, j \in DOMAIN acts : acts[i][1] = acts[j][1] => i = j
      BY <1>4 DEF ActsOnce
    <3> QED
      BY <3>1, <3>2, <3>3 DEF ActsOnce
  <2> QED
    BY <2>1, <2>2
<1> QED
  BY <1>2, <1>8, <1>10 DEF DevicesInv, EventsAreReserved, RowsAreOrdered, DevicesActOnce,
     TelemetryIsFresh, QuarantineStands, RateIsKept

\* One or two rows of this minute come after the others.
LEMMA WithFailureFacts ==
    ASSUME NEW rows \in Seq([at : Nat, until : Nat]), time \in Nat
    PROVE  /\ WithFailure(rows) \in Seq([at : Nat, until : Nat])
           /\ \A i \in DOMAIN rows : i \in DOMAIN WithFailure(rows) /\ WithFailure(rows)[i] = rows[i]
           /\ \A i \in DOMAIN WithFailure(rows) : i \notin DOMAIN rows =>
                /\ WithFailure(rows)[i].at = time
                /\ WithFailure(rows)[i].until \in {Never, time + QuarantineTime}
                /\ \A j \in DOMAIN rows : j < i
<1> DEFINE R == [at : Nat, until : Nat]
           a == [at |-> time, until |-> Never]
           b == [at |-> time, until |-> time + QuarantineTime]
           failed == Append(rows, a)
<1>1. a \in R /\ a.at = time /\ a.until = Never
  BY DEF Never
<1>2. b \in R /\ b.at = time /\ b.until = time + QuarantineTime
  BY DevicesAssumption
<1>3. WithFailure(rows) \in {failed, Append(failed, b)}
  BY DEF WithFailure
<1>4. rows \in Seq(R)
  OBVIOUS
<1> SUFFICES ASSUME NEW new, new \in {failed, Append(failed, b)}
             PROVE  /\ new \in Seq(R)
                    /\ \A i \in DOMAIN rows : i \in DOMAIN new /\ new[i] = rows[i]
                    /\ \A i \in DOMAIN new : i \notin DOMAIN rows =>
                         /\ new[i].at = time /\ new[i].until \in {Never, time + QuarantineTime}
                         /\ \A j \in DOMAIN rows : j < i
  BY <1>3
<1> HIDE DEF R, a, b
<1>5. /\ Len(rows) \in Nat /\ DOMAIN rows = 1..Len(rows)
      /\ failed \in Seq(R) /\ Len(failed) = Len(rows) + 1 /\ failed[Len(rows) + 1] = a
      /\ \A i \in 1..Len(rows) : failed[i] = rows[i]
  BY <1>1, <1>4
<1> HIDE DEF failed
<1>6. CASE new = failed
  BY <1>1, <1>5, <1>6
<1>7. CASE new = Append(failed, b)
  <2>1. /\ new \in Seq(R) /\ Len(new) = Len(rows) + 2 /\ new[Len(rows) + 2] = b
        /\ \A i \in 1..(Len(rows) + 1) : new[i] = failed[i]
    BY <1>2, <1>5, <1>7
  <2>2. DOMAIN new = 1..(Len(rows) + 2)
    BY <2>1
  <2>3. ASSUME NEW i \in DOMAIN new, i \notin DOMAIN rows
        PROVE  i = Len(rows) + 1 \/ i = Len(rows) + 2
    BY <1>5, <2>2, <2>3
  <2>4. new[Len(rows) + 1] = a
    BY <1>5, <2>1
  <2>5. ASSUME NEW i \in DOMAIN rows PROVE i \in DOMAIN new /\ new[i] = rows[i]
    BY <1>5, <2>1, <2>2
  <2>6. ASSUME NEW i \in DOMAIN new, i \notin DOMAIN rows
        PROVE  /\ new[i].at = time /\ new[i].until \in {Never, time + QuarantineTime}
               /\ \A j \in DOMAIN rows : j < i
    <3>1. i = Len(rows) + 1 \/ i = Len(rows) + 2
      BY <2>3, <2>6
    <3>2. \A j \in DOMAIN rows : j < i
      BY <1>5, <3>1
    <3> QED
      BY <1>1, <1>2, <2>1, <2>4, <3>1, <3>2
  <2> QED
    BY <2>1, <2>5, <2>6
<1> QED
  BY <1>6, <1>7

LEMMA RefuseTelemetryInv ==
    ASSUME DevicesInv, NEW d \in Device, NEW m \in Message, RefuseTelemetry(d, m)
    PROVE  DevicesInv'
<1> DEFINE R == [at : Nat, until : Nat]
           old == quarantine[d]
           new == WithFailure(quarantine[d])
<1>1. quarantine' = [quarantine EXCEPT ![d] = new]
  BY DEF RefuseTelemetry
<1>2. UNCHANGED <<device, telemetry, replayIds, command, acts, time>>
  BY DEF RefuseTelemetry
<1>3. DevicesTyped /\ RowsAreOrdered /\ QuarantineStands
  BY DEF DevicesInv, DevicesActOnce
<1>4. quarantine \in [Device -> Seq(R)] /\ time \in Nat
  <2>1. time \in 1..LastTime /\ LastTime \in Nat
    BY <1>3, DevicesAssumption DEF DevicesTyped, DevicesTypeOK
  <2>2. quarantine \in [Device -> Seq([at : Nat, until : Nat])]
    BY <1>3 DEF DevicesTyped
  <2>3. time \in Nat
    BY <2>1
  <2> QED
    BY <2>2, <2>3
<1>5. /\ new \in Seq(R)
      /\ \A i \in DOMAIN old : i \in DOMAIN new /\ new[i] = old[i]
      /\ \A i \in DOMAIN new : i \notin DOMAIN old =>
           /\ new[i].at = time /\ new[i].until \in {Never, time + QuarantineTime}
           /\ \A j \in DOMAIN old : j < i
  BY <1>4, WithFailureFacts
<1>n. DOMAIN new \subseteq Nat
  BY <1>5
<1> HIDE DEF new
<1>6. /\ quarantine' \in [Device -> Seq(R)] /\ quarantine'[d] = new
      /\ \A e \in Device \ {d} : quarantine'[e] = quarantine[e]
  BY <1>1, <1>4, <1>5
<1>7. DevicesTyped'
  BY <1>2, <1>3, <1>6 DEF DevicesTyped, DevicesTypeOK
<1>8. RowsAreOrdered'
  <2> SUFFICES ASSUME NEW e \in Device, NEW i \in DOMAIN quarantine'[e]
               PROVE  /\ quarantine'[e][i].at <= time
                      /\ quarantine'[e][i].until \in {Never, quarantine'[e][i].at + QuarantineTime}
                      /\ \A j \in DOMAIN quarantine'[e] : i <= j => quarantine'[e][i].at <= quarantine'[e][j].at
    BY <1>2 DEF RowsAreOrdered
  <2>1. CASE e # d
    BY <1>3, <1>6, <2>1 DEF RowsAreOrdered
  <2>2. CASE e = d
    <3>1. \A k \in DOMAIN old : /\ old[k].at <= time
                                /\ old[k].until \in {Never, old[k].at + QuarantineTime}
                                /\ \A j \in DOMAIN old : k <= j => old[k].at <= old[j].at
      BY <1>3 DEF RowsAreOrdered
    <3>2. \A k \in DOMAIN new : /\ new[k].at <= time
                                /\ new[k].until \in {Never, new[k].at + QuarantineTime}
      <4> SUFFICES ASSUME NEW k \in DOMAIN new
                   PROVE  /\ new[k].at <= time
                          /\ new[k].until \in {Never, new[k].at + QuarantineTime}
        OBVIOUS
      <4>1. CASE k \in DOMAIN old
        <5>1. new[k] = old[k]
          BY <1>5, <4>1
        <5> QED
          BY <3>1, <4>1, <5>1
      <4>2. CASE k \notin DOMAIN old
        BY <1>4, <1>5, <4>2
      <4> QED
        BY <4>1, <4>2
    <3>3. ASSUME NEW k \in DOMAIN new, NEW j \in DOMAIN new, k <= j PROVE new[k].at <= new[j].at
      <4>1. CASE j \in DOMAIN old /\ k \in DOMAIN old
        BY <1>5, <3>1, <3>3, <4>1
      <4>2. CASE j \in DOMAIN old /\ k \notin DOMAIN old
        <5>1. j < k
          BY <1>5, <4>2
        <5> QED
          BY <1>n, <3>3, <5>1
      <4>3. CASE j \notin DOMAIN old
        BY <1>5, <3>2, <4>3
      <4> QED
        BY <4>1, <4>2, <4>3
    <3> QED
      BY <1>6, <2>2, <3>2, <3>3
  <2> QED
    BY <2>1, <2>2
<1>9. QuarantineStands'
  <2> SUFFICES ASSUME NEW e \in telemetry, NEW i \in DOMAIN quarantine'[e.device],
                      quarantine'[e.device][i].at < e.at
               PROVE  quarantine'[e.device][i].until <= e.at
    BY <1>2 DEF QuarantineStands
  <2>1. e.device \in Device /\ e.at \in Nat /\ e.at <= time
    <3>1. e \in [device : Device, message : Message, stamp : Nat, at : 1..time]
      BY <1>3 DEF DevicesTyped
    <3> QED
      BY <1>4, <3>1
  <2>2. CASE e.device # d
    BY <1>3, <1>6, <2>1, <2>2 DEF QuarantineStands
  <2>3. CASE e.device = d
    <3>1. quarantine'[e.device] = new
      BY <1>6, <2>3
    <3>2. i \in DOMAIN old
      BY <1>4, <1>5, <2>1, <3>1
    <3>3. new[i] = old[i] /\ old = quarantine[e.device]
      BY <1>5, <2>3, <3>2
    <3> HIDE DEF old
    <3> QED
      BY <1>3, <3>1, <3>2, <3>3 DEF QuarantineStands
  <2> QED
    BY <2>2, <2>3
<1> QED
  BY <1>2, <1>7, <1>8, <1>9 DEF DevicesInv, EventsAreReserved, DevicesActOnce, ActsOnce,
     TelemetryIsFresh, RateIsKept

\* The last row that names a time names the latest one.
LEMMA UntilIsLatest ==
    ASSUME DevicesTyped, RowsAreOrdered, NEW d \in Device, NEW i \in DOMAIN quarantine[d]
    PROVE  QuarantineUntil(d) \in Nat /\ quarantine[d][i].until <= QuarantineUntil(d)
<1> DEFINE rows == quarantine[d]
           R == [at : Nat, until : Nat]
           dated == {k \in DOMAIN rows : rows[k].until # Never}
<1>1. rows \in Seq(R)
  BY DEF DevicesTyped
<1>2. /\ Len(rows) \in Nat /\ DOMAIN rows = 1..Len(rows)
      /\ \A k \in DOMAIN rows : rows[k] \in R
  <2> HIDE DEF R, rows
  <2> QED
    BY <1>1
<1>3. /\ \A k \in DOMAIN rows : rows[k].at \in Nat /\ rows[k].until \in Nat
      /\ \A k \in DOMAIN rows : rows[k].until \in {Never, rows[k].at + QuarantineTime}
      /\ \A k, j \in DOMAIN rows : k <= j => rows[k].at <= rows[j].at
  BY <1>2 DEF RowsAreOrdered
<1>4. QuarantineUntil(d) = IF dated = {} THEN Never ELSE rows[Max(dated)].until
  BY DEF QuarantineUntil
<1>5. i \in DOMAIN rows /\ QuarantineTime \in Nat /\ Never = 0
  BY DevicesAssumption DEF Never
<1>q. quarantine[d] = rows
  OBVIOUS
<1>f. /\ dated \subseteq DOMAIN rows /\ \A k \in dated : rows[k].until # Never
      /\ \A k \in DOMAIN rows : k \notin dated => rows[k].until = Never
  OBVIOUS
<1> HIDE DEF rows, dated
<1>6. CASE dated = {}
  BY <1>3, <1>4, <1>5, <1>6, <1>f, <1>q
<1>7. CASE dated # {}
  <2>1. dated \in SUBSET Nat /\ \A k \in dated : k <= Len(rows)
    BY <1>2, <1>f
  <2>2. Max(dated) \in dated /\ \A k \in dated : k <= Max(dated)
    BY <1>2, <1>7, <2>1, MaxFacts
  <2>3. rows[Max(dated)].until = rows[Max(dated)].at + QuarantineTime
    BY <1>3, <1>f, <2>2
  <2>4. CASE i \in dated
    <3>1. rows[i].until = rows[i].at + QuarantineTime /\ rows[i].at <= rows[Max(dated)].at
      BY <1>3, <1>f, <2>2, <2>4
    <3> QED
      BY <1>3, <1>4, <1>5, <1>7, <2>2, <2>3, <1>f, <1>q, <3>1
  <2>5. CASE i \notin dated
    BY <1>3, <1>4, <1>5, <1>7, <2>2, <1>f, <1>q, <2>5
  <2> QED
    BY <2>4, <2>5
<1> QED
  BY <1>6, <1>7

LEMMA IngestTelemetryInv ==
    ASSUME DevicesInv, NEW d \in Device, NEW m \in Message, IngestTelemetry(d, m)
    PROVE  DevicesInv'
<1>1. PICK stamp \in 1..(LastTime + Skew) :
        /\ ~Refuses(d, m, stamp, TRUE, TRUE)
        /\ telemetry' \in {telemetry,
             telemetry \cup {[device |-> d, message |-> m, stamp |-> stamp, at |-> time]}}
  BY DEF IngestTelemetry
<1> DEFINE new == [device |-> d, message |-> m, stamp |-> stamp, at |-> time]
           id == [device |-> d, message |-> m, at |-> time]
<1>2. /\ QuarantineUntil(d) <= time /\ replayIds' = replayIds \cup {id}
      /\ UNCHANGED <<device, quarantine, command, acts, time>>
  BY DEF IngestTelemetry
<1>3. DevicesTyped /\ RowsAreOrdered /\ EventsAreReserved /\ TelemetryIsFresh /\ QuarantineStands /\ RateIsKept
  BY DEF DevicesInv, DevicesActOnce
<1>4. LastTime \in Nat /\ Freshness \in Nat /\ Skew \in Nat /\ PerMinuteEvents \in Nat /\ time \in 1..LastTime
  BY <1>3, DevicesAssumption DEF DevicesTyped, DevicesTypeOK
<1>5. time \in Nat /\ time \in 1..time /\ stamp \in Nat
  BY <1>1, <1>4
<1>6. /\ stamp <= time + Skew /\ time <= stamp + Freshness
      /\ ~(Cardinality(RecentReplays(d)) >= PerMinuteEvents)
      /\ \A r \in replayIds : ~(r.device = d /\ r.message = m)
  BY <1>1, <1>4, <1>5 DEF Refuses
<1>7. /\ telemetry \subseteq [device : Device, message : Message, stamp : Nat, at : 1..time]
      /\ replayIds \subseteq [device : Device, message : Message, at : 1..time]
      /\ IsFiniteSet(replayIds)
  BY <1>3 DEF DevicesTyped
<1>8. DevicesTyped'
  <2>1. telemetry' \subseteq [device : Device, message : Message, stamp : Nat, at : 1..time]
    BY <1>1, <1>5, <1>7
  <2>2. replayIds' \subseteq [device : Device, message : Message, at : 1..time]
    BY <1>2, <1>5, <1>7
  <2>3. IsFiniteSet(replayIds')
    BY <1>2, <1>7, FS_AddElement
  <2> QED
    BY <1>2, <1>3, <2>1, <2>2, <2>3 DEF DevicesTyped, DevicesTypeOK
<1>9. EventsAreReserved'
  <2> SUFFICES ASSUME NEW e \in telemetry'
               PROVE  [device |-> e.device, message |-> e.message, at |-> e.at] \in replayIds'
    BY DEF EventsAreReserved
  <2>1. CASE e \in telemetry
    BY <1>2, <1>3, <2>1 DEF EventsAreReserved
  <2>2. CASE e \notin telemetry
    <3>1. e.device = d /\ e.message = m /\ e.at = time
      BY <1>1, <2>2
    <3> QED
      BY <1>2, <3>1
  <2> QED
    BY <2>1, <2>2
<1>10. TelemetryIsFresh'
  <2>1. \A e \in telemetry : ~(e.device = d /\ e.message = m)
    BY <1>3, <1>6 DEF EventsAreReserved
  <2>2. new.stamp <= new.at + Skew /\ new.at <= new.stamp + Freshness /\ new.device = d /\ new.message = m
    BY <1>4, <1>5, <1>6
  <2>3. telemetry' \in {telemetry, telemetry \cup {new}}
    BY <1>1
  <2> HIDE DEF new
  <2> QED
    BY <1>3, <2>1, <2>2, <2>3 DEF TelemetryIsFresh
<1>11. QuarantineStands'
  <2> SUFFICES ASSUME NEW e \in telemetry', NEW i \in DOMAIN quarantine[e.device],
                      quarantine[e.device][i].at < e.at
               PROVE  quarantine[e.device][i].until <= e.at
    BY <1>2 DEF QuarantineStands
  <2>1. CASE e \in telemetry
    BY <1>3, <2>1 DEF QuarantineStands
  <2>2. CASE e \notin telemetry
    <3>1. e = new /\ e.device = d /\ e.at = time
      BY <1>1, <2>2
    <3>2. QuarantineUntil(d) \in Nat /\ quarantine[d][i].until <= QuarantineUntil(d)
      BY <1>3, <3>1, UntilIsLatest
    <3>3. quarantine[d][i].until \in Nat
      <4> DEFINE R == [at : Nat, until : Nat]
      <4>1. quarantine[d] \in Seq(R) /\ i \in DOMAIN quarantine[d]
        BY <1>3, <3>1 DEF DevicesTyped
      <4> HIDE DEF R
      <4>2. quarantine[d][i] \in R
        BY <4>1
      <4> QED
        BY <4>2 DEF R
    <3> QED
      BY <1>2, <1>5, <3>1, <3>2, <3>3
  <2> QED
    BY <2>1, <2>2
<1>12. RateIsKept'
  <2> SUFFICES ASSUME NEW e \in Device, NEW t \in 1..LastTime
               PROVE  Cardinality({r \in replayIds' : r.device = e /\ r.at \in {t, t + 1}}) <= PerMinuteEvents
    BY DEF RateIsKept
  <2> DEFINE before == {r \in replayIds : r.device = e /\ r.at \in {t, t + 1}}
             after == {r \in replayIds' : r.device = e /\ r.at \in {t, t + 1}}
  <2>1. Cardinality(before) <= PerMinuteEvents
    BY <1>3 DEF RateIsKept
  <2>2. CASE e = d /\ time \in {t, t + 1}
    <3>1. after = before \cup {id} /\ before \subseteq RecentReplays(d)
      <4>1. ASSUME NEW r \in before PROVE r \in RecentReplays(d)
        <5>1. r \in replayIds /\ r.at \in 1..time /\ r.device = d /\ r.at \in {t, t + 1}
          BY <1>7, <2>2
        <5> QED
          BY <1>5, <2>2, <5>1 DEF RecentReplays
      <4>2. after = before \cup {id}
        BY <1>2, <2>2
      <4> QED
        BY <4>1, <4>2
    <3>2. IsFiniteSet(RecentReplays(d)) /\ IsFiniteSet(before)
      BY <1>7, FS_Subset DEF RecentReplays
    <3> HIDE DEF before, after
    <3>3. /\ Cardinality(before) \in Nat /\ Cardinality(RecentReplays(d)) \in Nat
          /\ Cardinality(before) <= Cardinality(RecentReplays(d))
      BY <3>1, <3>2, FS_Subset, FS_CardinalityType
    <3>4. Cardinality(after) \in {Cardinality(before), Cardinality(before) + 1}
      BY <3>1, <3>2, FS_AddElement
    <3>5. Cardinality(after) <= PerMinuteEvents
      BY <1>4, <1>6, <3>3, <3>4
    <3> QED
      BY <3>5 DEF after
  <2>3. CASE ~(e = d /\ time \in {t, t + 1})
    <3>1. after = before
      BY <1>2, <2>3
    <3> QED
      BY <2>1, <3>1
  <2> QED
    BY <2>2, <2>3
<1> QED
  BY <1>2, <1>3, <1>8, <1>9, <1>10, <1>11, <1>12 DEF DevicesInv, RowsAreOrdered, DevicesActOnce, ActsOnce

LEMMA DevicesStep ==
    ASSUME DevicesInv, DevicesNext
    PROVE  DevicesInv'
BY RegisterDeviceInv, RefuseTelemetryInv, IngestTelemetryInv, PrepareInv, ExecuteCommandInv, MinutePassesInv
   DEF DevicesNext

-----------------------------------------------------------------------------
(* In the deployment. *)

SafeguardInv ==
    /\ part = "failsafe" => FailSafeInv
    /\ part = "gateway" => GatewayInv
    /\ part = "council" => CouncilInv
    /\ part = "devices" => DevicesInv

LEMMA InitSafeguard == PlatformInit => SafeguardInv
BY InitFailSafe, InitGateway, InitCouncil, InitDevices DEF PlatformInit, SafeguardInv

LEMMA SafeguardStutter ==
    ASSUME UNCHANGED platformVars
    PROVE  /\ UNCHANGED <<part, failSafeVars, gatewayVars, councilVars, devicesVars>>
           /\ FailSafeInv => FailSafeInv'
           /\ GatewayInv => GatewayInv'
           /\ CouncilInv => CouncilInv'
           /\ DevicesInv => DevicesInv'
<1>1. UNCHANGED <<part, failSafeVars, gatewayVars, councilVars, devicesVars>>
  BY DEF platformVars
<1>2. FailSafeInv => FailSafeInv'
  <2>1. UNCHANGED <<keyed, required, controller, locked, files, latest, named, saver, acknowledged,
                    effects, damaged>>
    BY <1>1 DEF failSafeVars
  <2>2. FailSafeTyped' = FailSafeTyped /\ Serialised' = Serialised /\ NamesStand' = NamesStand
    BY <2>1 DEF FailSafeTyped, Serialised, NamesStand
  <2>3. SavedIsKept' = SavedIsKept /\ EffectsAreCovered' = EffectsAreCovered
    BY <2>1 DEF SavedIsKept, EffectsAreCovered
  <2>4. Alone' = Alone
    BY <2>1 DEF Alone
  <2>5. OneWrites' = OneWrites
    BY <2>1, <2>4 DEF OneWrites
  <2>6. Continues' = Continues
    BY <2>1 DEF Continues
  <2> QED
    BY <2>2, <2>3, <2>5, <2>6 DEF FailSafeInv
<1>3. GatewayInv => GatewayInv'
  BY <1>1 DEF gatewayVars, GatewayInv, GatewayTyped, GatewayTypeOK, NothingServed, BootsAreMarked,
     CountsAreClose, Admitting, ArtifactsAreWritten, AcceptanceIsEarned, AnsweredArtifactStands, Up
<1>4. CouncilInv => CouncilInv'
  <2>1. UNCHANGED <<solves, recorded>>
    BY <1>1 DEF councilVars
  <2>2. \A s \in Solve : ReportsOf(s)' = ReportsOf(s) /\ Calculations(s)' = Calculations(s)
    BY <2>1 DEF ReportsOf, Calculations
  <2>3. \A s \in Solve : CandidatePassed(s) => CandidatePassed(s)'
    BY <2>1, <2>2 DEF CandidatePassed
  <2>4. \A s \in Solve : VerdictIsBounded(s) => VerdictIsBounded(s)'
    BY <2>1, <2>2 DEF VerdictIsBounded
  <2> QED
    BY <2>1, <2>3, <2>4 DEF CouncilInv, CouncilTypeOK, VerdictsAreBounded
<1>5. DevicesInv => DevicesInv'
  BY <1>1 DEF devicesVars, DevicesInv, DevicesTyped, DevicesTypeOK, EventsAreReserved,
     RowsAreOrdered, DevicesActOnce, ActsOnce, TelemetryIsFresh, QuarantineStands, RateIsKept
<1> QED
  BY <1>1, <1>2, <1>3, <1>4, <1>5

LEMMA SafeguardStep ==
    ASSUME SafeguardInv, [PlatformNext]_platformVars
    PROVE  SafeguardInv'
<1>1. CASE FailSafeRuns
  BY <1>1, FailSafeStep DEF FailSafeRuns, SafeguardInv
<1>2. CASE GatewayRuns
  BY <1>2, GatewayStep DEF GatewayRuns, SafeguardInv
<1>3. CASE CouncilRuns
  BY <1>3, CouncilStep DEF CouncilRuns, SafeguardInv
<1>4. CASE DevicesRuns
  BY <1>4, DevicesStep DEF DevicesRuns, SafeguardInv
<1>5. CASE \/ IdentityRuns \/ VoiceRuns \/ EnforcementRuns \/ CommercialRuns \/ VotesRuns
           \/ IntegrityRuns \/ TutorRuns \/ AssuranceRuns \/ FusionRuns \/ AwarenessRuns
           \/ TitanRuns \/ RoadRuns
  <2>1. part \notin {"failsafe", "gateway", "council", "devices"} /\ part' = part
    BY <1>5 DEF IdentityRuns, VoiceRuns, EnforcementRuns, CommercialRuns, VotesRuns, IntegrityRuns,
       TutorRuns, AssuranceRuns, FusionRuns, AwarenessRuns, TitanRuns, RoadRuns
  <2> QED
    BY <2>1 DEF SafeguardInv
<1>6. CASE UNCHANGED platformVars
  BY <1>6, SafeguardStutter DEF SafeguardInv
<1> QED
  BY <1>1, <1>2, <1>3, <1>4, <1>5, <1>6 DEF PlatformNext

LEMMA SafeguardsHold == PlatformSpec => []SafeguardInv
<1>1. SafeguardInv /\ [PlatformNext]_platformVars => SafeguardInv'
  BY SafeguardStep
<1> QED
  BY <1>1, InitSafeguard, PTL DEF PlatformSpec

\* No request has an effect before the snapshot it is to be undone by is there,
\* or beyond its authority; the newest MaxSnapshots of one controller form a
\* chain wherever its checkpoints are cut off, and all that is retained does when
\* the last checkpoint has returned.
THEOREM SnapshotsCoverEffects == PlatformSpec => []FailSafeHolds
<1>1. SafeguardInv => FailSafeHolds
  BY RetainedFollows DEF SafeguardInv, FailSafeHolds, FailSafeInv
<1> QED
  BY <1>1, SafeguardsHold, PTL

\* A volume attests an acceptance that a boot earned after another had ended its
\* self-test; in a process whose preflight failed nothing that main guards by its
\* fail-safe runs, counts or is audited; calls that are counted together exceed
\* the quota by one each at most; and an answered artifact can be fetched until it
\* expires.
THEOREM GatewayKeepsItsWord == PlatformSpec => []GatewayStands
<1>1. SafeguardInv => GatewayStands
  BY GatewayServes DEF SafeguardInv, GatewayStands
<1> QED
  BY <1>1, SafeguardsHold, PTL

\* A verdict of the council stays under the ceilings of its evidence, under 0.2
\* when the truth gate or, of any confidence but NaN, the IoT gate rejected it, and
\* under the fallback's without a judge; it keeps to the authority of the asker and
\* names a decision the ledger holds.
THEOREM CouncilIsBounded == PlatformSpec => []CouncilHolds
<1>1. SafeguardInv => CouncilHolds
  BY DEF SafeguardInv, CouncilHolds, CouncilInv
<1> QED
  BY <1>1, SafeguardsHold, PTL

\* A device acts at most once on a command; a message is taken once, no older than
\* the freshness and no further ahead than the skew allows, at the allowed rate, and never while the device is quarantined.
THEOREM CommandsActOnce == PlatformSpec => []DevicesHold
<1>1. SafeguardInv => DevicesHold
  BY DEF SafeguardInv, DevicesHold, DevicesInv
<1> QED
  BY <1>1, SafeguardsHold, PTL

-----------------------------------------------------------------------------
(* Votes: the property is inductive, together with the types. *)

VotesInv == VotesTypeOK /\ CommitIsQuorate

LEMMA InitVotes == VotesInit => VotesInv
<1> SUFFICES ASSUME VotesInit PROVE VotesInv
  OBVIOUS
<1>1. VotesTypeOK
  BY DEF VotesInit, VotesTypeOK
<1>2. Cardinality({}) = 0 /\ ~(0 >= Quorum)
  BY VotesAssumption, FS_EmptySet
<1>3. CommitIsQuorate
  BY <1>2 DEF VotesInit, CommitIsQuorate
<1> QED
  BY <1>1, <1>3 DEF VotesInv

\* A ballot goes on to another step.
LEMMA BallotTyped ==
    ASSUME VotesTypeOK, NEW b \in Ballot,
           NEW step \in {"sent", "verified", "accepted", "refused", "failed"}, BallotGoes(b, step)
    PROVE  ballot' \in [Ballot -> [node : Node, vote : Vote,
                                   step : {"sent", "verified", "accepted", "refused", "failed"}]]
BY DEF VotesTypeOK, BallotGoes

\* A vote that is recorded is for what was recorded before, and the nodes that
\* attest the document grow.
LEMMA RecordVoteInv ==
    ASSUME VotesInv, NEW b \in Ballot, RecordVote(b)
    PROVE  VotesInv'
<1> DEFINE v == ballot[b].vote
           n == ballot[b].node
           p == v.proposal
           done == Cardinality(Attesting(b)) >= Quorum
<1>1. VotesTypeOK /\ CommitIsQuorate
  BY DEF VotesInv
<1>2. v \in Vote /\ n \in Node /\ p \in Proposal
  BY <1>1 DEF VotesTypeOK, Proposal
<1>3. CASE ~Recordable(b)
  <2>1. BallotGoes(b, "refused") /\ UNCHANGED <<proposals, seen, accepted>>
    BY <1>3 DEF RecordVote
  <2>2. VotesTypeOK'
    BY <1>1, <2>1, BallotTyped DEF VotesTypeOK
  <2>3. CommitIsQuorate'
    BY <1>1, <2>1 DEF CommitIsQuorate
  <2> QED
    BY <2>2, <2>3 DEF VotesInv
<1>4. CASE Recordable(b)
  <2>1. proposals' = [proposals EXCEPT ![p] =
                        [hash |-> {v}, votes |-> Attesting(b), committed |-> done]]
    BY <1>4 DEF RecordVote
  <2>2. \/ /\ seen' = [seen EXCEPT ![n] = @ \cup {v}]
           /\ accepted' = accepted \cup {[node |-> n, vote |-> v, committed |-> done]}
           /\ BallotGoes(b, "accepted")
        \/ BallotGoes(b, "failed") /\ UNCHANGED <<seen, accepted>>
    BY <1>4 DEF RecordVote
  <2>3. /\ proposals[p].votes \in SUBSET Node
        /\ Attesting(b) = proposals[p].votes \cup {n}
        /\ Attesting(b) \in SUBSET Node
    BY <1>1, <1>2 DEF VotesTypeOK, Attesting, DocumentOf
  <2>4. done \in BOOLEAN
    OBVIOUS
  <2>5. proposals[p].hash \subseteq {v}
    BY <1>4 DEF Recordable, DocumentOf
  <2>6. proposals[p].committed => done
    <3>1. IsFiniteSet(Attesting(b)) /\ IsFiniteSet(proposals[p].votes)
      BY <2>3, VotesAssumption, FS_Subset
    <3>2. /\ Cardinality(proposals[p].votes) <= Cardinality(Attesting(b))
          /\ Cardinality(proposals[p].votes) \in Nat /\ Cardinality(Attesting(b)) \in Nat
      BY <2>3, <3>1, FS_Subset, FS_CardinalityType
    <3>3. proposals[p].committed => Cardinality(proposals[p].votes) >= Quorum
      BY <1>1, <1>2 DEF CommitIsQuorate
    <3> QED
      BY <3>2, <3>3, VotesAssumption
  <2> DEFINE attesting == Attesting(b)
  <2>8. proposals' = [proposals EXCEPT ![p] =
                        [hash |-> {v}, votes |-> attesting, committed |-> done]]
    BY <2>1
  <2>9. done <=> Cardinality(attesting) >= Quorum
    OBVIOUS
  <2> HIDE DEF attesting, done, v, n, p
  <2>10. /\ proposals' \in [Proposal -> [hash : SUBSET Vote, votes : SUBSET Node, committed : BOOLEAN]]
         /\ proposals'[p] = [hash |-> {v}, votes |-> attesting, committed |-> done]
         /\ \A q \in Proposal : q # p => proposals'[q] = proposals[q]
    BY <1>1, <1>2, <2>3, <2>4, <2>8 DEF VotesTypeOK, attesting
  <2>11. VotesTypeOK'
    <3>1. ballot' \in [Ballot -> [node : Node, vote : Vote,
                                  step : {"sent", "verified", "accepted", "refused", "failed"}]]
      BY <1>1, <2>2, BallotTyped
    <3>2. seen' \in [Node -> SUBSET Vote]
      BY <1>1, <1>2, <2>2 DEF VotesTypeOK
    <3>3. accepted' \subseteq [node : Node, vote : Vote, committed : BOOLEAN]
      BY <1>1, <1>2, <2>2, <2>4 DEF VotesTypeOK
    <3> QED
      BY <2>10, <3>1, <3>2, <3>3 DEF VotesTypeOK
  <2>12. ASSUME NEW a \in accepted'
         PROVE  /\ proposals'[a.vote.proposal].hash = {a.vote}
                /\ a.node \in proposals'[a.vote.proposal].votes
                /\ a.committed => proposals'[a.vote.proposal].committed
    <3>1. CASE a = [node |-> n, vote |-> v, committed |-> done]
      BY <2>3, <2>10, <3>1 DEF attesting, p
    <3>2. CASE a \in accepted
      <4>1. /\ a.vote.proposal \in Proposal
            /\ proposals[a.vote.proposal].hash = {a.vote}
            /\ a.node \in proposals[a.vote.proposal].votes
            /\ a.committed => proposals[a.vote.proposal].committed
        BY <1>1, <3>2 DEF VotesTypeOK, CommitIsQuorate, Proposal
      <4>2. CASE a.vote.proposal # p
        BY <2>10, <4>1, <4>2
      <4>3. CASE a.vote.proposal = p
        BY <2>3, <2>5, <2>6, <2>10, <4>1, <4>3 DEF attesting
      <4> QED
        BY <4>2, <4>3
    <3> QED
      BY <2>2, <3>1, <3>2
  <2>13. \A q \in Proposal :
            proposals'[q].committed <=> Cardinality(proposals'[q].votes) >= Quorum
    BY <1>1, <2>9, <2>10 DEF CommitIsQuorate
  <2> QED
    BY <2>11, <2>12, <2>13 DEF VotesInv, CommitIsQuorate
<1> QED
  BY <1>3, <1>4

LEMMA VotesStep ==
    ASSUME VotesInv, VotesNext
    PROVE  VotesInv'
<1>1. VotesTypeOK /\ CommitIsQuorate
  BY DEF VotesInv
<1>2. ASSUME NEW b \in Ballot, VerifyVote(b) \/ SendAgain(b) PROVE VotesInv'
  <2>1. /\ UNCHANGED <<proposals, seen, accepted>>
        /\ \E step \in {"sent", "verified", "accepted", "refused", "failed"} : BallotGoes(b, step)
    BY <1>2 DEF VerifyVote, SendAgain
  <2>2. VotesTypeOK'
    BY <1>1, <2>1, BallotTyped DEF VotesTypeOK
  <2> QED
    BY <1>1, <2>1, <2>2 DEF VotesInv, CommitIsQuorate
<1>3. ASSUME NEW b \in Ballot, RecordVote(b) PROVE VotesInv'
  BY <1>3, RecordVoteInv
<1>4. ASSUME NodeRestart PROVE VotesInv'
  <2>1. UNCHANGED <<proposals, accepted>>
    BY <1>4 DEF NodeRestart
  <2>2. PICK n \in Node :
          /\ seen' = [seen EXCEPT ![n] = {}]
          /\ ballot' = [b \in Ballot |->
               IF ballot[b].node = n /\ ballot[b].step = "verified"
               THEN [ballot[b] EXCEPT !.step = "failed"] ELSE ballot[b]]
    BY <1>4 DEF NodeRestart
  <2>3. VotesTypeOK'
    BY <1>1, <2>1, <2>2 DEF VotesTypeOK
  <2> QED
    BY <1>1, <2>1, <2>3 DEF VotesInv, CommitIsQuorate
<1> QED
  BY <1>2, <1>3, <1>4 DEF VotesNext

-----------------------------------------------------------------------------
(* The integrity chain and the seal store. *)

Entry == [state : State, sequence : Nat, previous : Nat]

Entries == UNION {chain[o] : o \in Operation}

ChainTyped ==
    /\ chain \in [Operation -> SUBSET Entry]
    /\ chainHead \in Nat
    /\ signing \in [Signing -> [operation : Operation, state : State,
                                step : {"sent", "signed", "done", "refused"}]]
    /\ signed \subseteq [operation : Operation, state : State]

\* The entries are counted by the head, and whatever was accepted is in them.
Linked ==
    /\ IsFiniteSet(Entries)
    /\ Cardinality(Entries) = chainHead
    /\ {e.sequence : e \in Entries} = 1 .. chainHead
    /\ \A e \in Entries : e.previous = e.sequence - 1
    /\ \A a \in signed : \E e \in chain[a.operation] : e.state = a.state

\* While seals do not overlap, the one that is going on has loaded the store
\* as it is.
SealsStand ==
    /\ raced \in BOOLEAN
    /\ store \in SUBSET Sealing
    /\ sealing \in [Sealing -> [step : {"sent", "loaded", "done", "failed"},
                                loaded : SUBSET Sealing]]
    /\ ~raced =>
         /\ confirmed = store
         /\ \A s, t \in Sealing :
              sealing[s].step = "loaded" =>
                 /\ sealing[s].loaded = store
                 /\ sealing[t].step = "loaded" => s = t

IntegrityInv == ChainTyped /\ Linked /\ SealsStand

LEMMA InitIntegrity == IntegrityInit => IntegrityInv
<1> SUFFICES ASSUME IntegrityInit PROVE IntegrityInv
  OBVIOUS
<1>1. ChainTyped
  BY DEF IntegrityInit, ChainTyped
<1>2. Entries = {}
  BY DEF IntegrityInit, Entries
<1>3. Linked
  <2>1. 1 .. 0 = {} /\ IsFiniteSet({}) /\ Cardinality({}) = 0
    BY FS_EmptySet
  <2> QED
    BY <1>2, <2>1 DEF IntegrityInit, Linked
<1>4. SealsStand
  BY DEF IntegrityInit, SealsStand
<1> QED
  BY <1>1, <1>3, <1>4 DEF IntegrityInv

LEMMA SigningTyped ==
    ASSUME ChainTyped, NEW r \in Signing,
           NEW step \in {"sent", "signed", "done", "refused"}, SigningGoes(r, step)
    PROVE  /\ signing' \in [Signing -> [operation : Operation, state : State,
                                        step : {"sent", "signed", "done", "refused"}]]
           /\ signing'[r].step = step
BY DEF ChainTyped, SigningGoes

\* An operation is answered from the chain, which has its state.
LEMMA AnswerFromChain ==
    ASSUME ChainTyped, Linked, NEW r \in Signing, UNCHANGED <<chain, chainHead>>,
           NEW step \in {"sent", "signed", "done", "refused"}, SigningGoes(r, step),
           step = "done" => \E e \in EntryOf(r) : e.state = signing[r].state,
           signed' = IF signing'[r].step = "done" THEN signed \cup {Answered(r)} ELSE signed
    PROVE  ChainTyped' /\ Linked'
<1>1. /\ signing' \in [Signing -> [operation : Operation, state : State,
                                   step : {"sent", "signed", "done", "refused"}]]
      /\ signing'[r].step = step
  BY SigningTyped
<1>2. Answered(r) \in [operation : Operation, state : State]
  BY DEF Answered, ChainTyped
<1>3. ChainTyped'
  BY <1>1, <1>2 DEF ChainTyped
<1>4. Entries' = Entries
  BY DEF Entries
<1>5. ASSUME NEW a \in signed' PROVE \E e \in chain'[a.operation] : e.state = a.state
  <2>1. CASE a \in signed
    BY <2>1 DEF Linked
  <2>2. CASE step = "done" /\ a = Answered(r)
    BY <2>2 DEF EntryOf, Answered
  <2> QED
    BY <1>1, <2>1, <2>2
<1>6. Linked'
  BY <1>4, <1>5 DEF Linked
<1> QED
  BY <1>3, <1>6

\* An entry is appended after the head.
LEMMA EntryAppended ==
    ASSUME ChainTyped, Linked, NEW r \in Signing, EntryOf(r) = {},
           chain' = [chain EXCEPT ![signing[r].operation] =
             {[state |-> signing[r].state, sequence |-> chainHead + 1, previous |-> chainHead]}],
           chainHead' = chainHead + 1,
           NEW step \in {"done", "refused"}, SigningGoes(r, step),
           signed' = IF signing'[r].step = "done" THEN signed \cup {Answered(r)} ELSE signed
    PROVE  ChainTyped' /\ Linked'
<1> DEFINE o == signing[r].operation
           e == [state |-> signing[r].state, sequence |-> chainHead + 1, previous |-> chainHead]
<1>1. o \in Operation /\ e \in Entry /\ chain[o] = {} /\ chainHead \in Nat
      /\ e.state = signing[r].state /\ e.sequence = chainHead + 1 /\ e.previous = chainHead
  BY DEF ChainTyped, Entry, EntryOf
<1>2. Answered(r) = [operation |-> o, state |-> e.state]
  BY DEF Answered
<1>3. chain' = [chain EXCEPT ![o] = {e}]
  OBVIOUS
<1>4. Answered(r) \in [operation : Operation, state : State]
  BY DEF Answered, ChainTyped
<1> HIDE DEF o, e
<1>5. /\ chain' \in [Operation -> SUBSET Entry]
      /\ chain'[o] = {e}
      /\ \A q \in Operation : q # o => chain'[q] = chain[q]
  BY <1>1, <1>3 DEF ChainTyped
<1>6. /\ signing' \in [Signing -> [operation : Operation, state : State,
                                   step : {"sent", "signed", "done", "refused"}]]
      /\ signing'[r].step = step
  BY SigningTyped
<1>7. ChainTyped'
  BY <1>1, <1>4, <1>5, <1>6 DEF ChainTyped
<1>8. Entries' = Entries \cup {e}
  <2>1. ASSUME NEW x \in Entries' PROVE x \in Entries \cup {e}
    <3>1. PICK q \in Operation : x \in chain'[q]
      BY <2>1 DEF Entries
    <3> QED
      BY <1>5, <3>1 DEF Entries
  <2>2. ASSUME NEW x \in Entries PROVE x \in Entries'
    <3>1. PICK q \in Operation : x \in chain[q]
      BY <2>2 DEF Entries
    <3>2. x \in chain'[q]
      BY <1>1, <1>5, <3>1
    <3> QED
      BY <3>2 DEF Entries
  <2>3. e \in Entries'
    BY <1>1, <1>5 DEF Entries
  <2> QED
    BY <2>1, <2>2, <2>3
<1>9. e \notin Entries
  <2>1. ASSUME e \in Entries PROVE FALSE
    <3>1. e.sequence \in 1 .. chainHead
      BY <2>1 DEF Linked
    <3> QED
      BY <1>1, <3>1
  <2> QED
    BY <2>1
<1>10. IsFiniteSet(Entries') /\ Cardinality(Entries') = chainHead'
  BY <1>8, <1>9, FS_AddElement DEF Linked
<1>11. {x.sequence : x \in Entries'} = 1 .. chainHead'
  <2>1. {x.sequence : x \in Entries'} = {x.sequence : x \in Entries} \cup {e.sequence}
    BY <1>8
  <2>2. 1 .. chainHead + 1 = (1 .. chainHead) \cup {chainHead + 1}
    BY <1>1
  <2> QED
    BY <1>1, <2>1, <2>2 DEF Linked
<1>12. \A x \in Entries' : x.previous = x.sequence - 1
  BY <1>1, <1>8 DEF Linked
<1>13. ASSUME NEW a \in signed' PROVE \E x \in chain'[a.operation] : x.state = a.state
  <2>1. CASE a = Answered(r)
    BY <1>2, <1>5, <2>1
  <2>2. CASE a \in signed
    <3>1. PICK x \in chain[a.operation] : x.state = a.state
      BY <2>2 DEF Linked
    <3>2. a.operation # o /\ a.operation \in Operation
      BY <1>1, <2>2, <3>1 DEF ChainTyped
    <3> QED
      BY <1>5, <3>1, <3>2
  <2> QED
    BY <2>1, <2>2
<1>14. Linked'
  BY <1>10, <1>11, <1>12, <1>13 DEF Linked
<1> QED
  BY <1>7, <1>14

LEMMA IntegrityStep ==
    ASSUME IntegrityInv, IntegrityNext
    PROVE  IntegrityInv'
<1>1. ChainTyped /\ Linked /\ SealsStand
  BY DEF IntegrityInv
<1>2. ASSUME UNCHANGED chainVars PROVE ChainTyped' /\ Linked'
  BY <1>1, <1>2 DEF chainVars, ChainTyped, Linked, Entries
<1>3. ASSUME UNCHANGED sealVars PROVE SealsStand'
  BY <1>1, <1>3 DEF sealVars, SealsStand
<1>4. ASSUME NEW r \in Signing, LookUpOperation(r) PROVE IntegrityInv'
  <2>1. /\ UNCHANGED <<chain, chainHead>> /\ UNCHANGED sealVars
        /\ signed' = IF signing'[r].step = "done" THEN signed \cup {Answered(r)} ELSE signed
    BY <1>4 DEF LookUpOperation
  <2>2. PICK step \in {"sent", "signed", "done", "refused"} :
          /\ SigningGoes(r, step)
          /\ step = "done" => \E e \in EntryOf(r) : e.state = signing[r].state
    BY <1>4 DEF LookUpOperation
  <2>3. ChainTyped' /\ Linked'
    BY <1>1, <2>1, <2>2, AnswerFromChain
  <2> QED
    BY <1>3, <2>1, <2>3 DEF IntegrityInv
<1>5. ASSUME NEW r \in Signing, AppendEntry(r) PROVE IntegrityInv'
  <2>1. /\ UNCHANGED sealVars
        /\ signed' = IF signing'[r].step = "done" THEN signed \cup {Answered(r)} ELSE signed
    BY <1>5 DEF AppendEntry
  <2>2. CASE EntryOf(r) = {}
    <3>1. /\ chain' = [chain EXCEPT ![signing[r].operation] =
               {[state |-> signing[r].state, sequence |-> chainHead + 1, previous |-> chainHead]}]
          /\ chainHead' = chainHead + 1
          /\ \E step \in {"done", "refused"} : SigningGoes(r, step)
      BY <1>5, <2>2 DEF AppendEntry
    <3>2. ChainTyped' /\ Linked'
      BY <1>1, <2>1, <2>2, <3>1, EntryAppended
    <3> QED
      BY <1>3, <2>1, <3>2 DEF IntegrityInv
  <2>3. CASE EntryOf(r) # {}
    <3>1. PICK step \in {"sent", "signed", "done", "refused"} :
            /\ SigningGoes(r, step)
            /\ step = "done" => \E e \in EntryOf(r) : e.state = signing[r].state
            /\ UNCHANGED <<chain, chainHead>>
      BY <1>5, <2>3 DEF AppendEntry
    <3>2. ChainTyped' /\ Linked'
      BY <1>1, <2>1, <3>1, AnswerFromChain
    <3> QED
      BY <1>3, <2>1, <3>2 DEF IntegrityInv
  <2> QED
    BY <2>2, <2>3
<1>6. ASSUME NEW s \in Sealing, LoadStore(s) PROVE IntegrityInv'
  <2>1. /\ sealing' = [sealing EXCEPT ![s] = [step |-> "loaded", loaded |-> store]]
        /\ raced' = (raced \/ \E t \in Sealing : sealing[t].step = "loaded")
        /\ UNCHANGED <<store, confirmed>> /\ UNCHANGED chainVars
    BY <1>6 DEF LoadStore
  <2>2. SealsStand'
    BY <1>1, <2>1 DEF SealsStand
  <2> QED
    BY <1>2, <2>1, <2>2 DEF IntegrityInv
<1>7. ASSUME NEW s \in Sealing, SaveStore(s) PROVE IntegrityInv'
  <2>1. /\ \/ /\ store' = sealing[s].loaded \cup {s}
              /\ confirmed' = confirmed \cup {s}
              /\ sealing' = [sealing EXCEPT ![s] = [step |-> "done", loaded |-> {}]]
           \/ /\ sealing' = [sealing EXCEPT ![s] = [step |-> "failed", loaded |-> {}]]
              /\ UNCHANGED <<store, confirmed>>
        /\ sealing[s].step = "loaded"
        /\ UNCHANGED raced /\ UNCHANGED chainVars
    BY <1>7 DEF SaveStore
  <2>2. /\ sealing' \in [Sealing -> [step : {"sent", "loaded", "done", "failed"},
                                     loaded : SUBSET Sealing]]
        /\ sealing'[s].step # "loaded"
        /\ \A t \in Sealing : t # s => sealing'[t] = sealing[t]
    BY <1>1, <2>1 DEF SealsStand
  <2>3. store' \in SUBSET Sealing
    BY <1>1, <2>1 DEF SealsStand
  <2>4. ASSUME ~raced
        PROVE  /\ confirmed' = store'
               /\ \A t \in Sealing : sealing'[t].step # "loaded"
    BY <1>1, <2>1, <2>2, <2>4 DEF SealsStand
  <2>5. SealsStand'
    BY <1>1, <2>1, <2>2, <2>3, <2>4 DEF SealsStand
  <2> QED
    BY <1>2, <2>1, <2>5 DEF IntegrityInv
<1>8. ASSUME RotateKem \/ RotateSignature PROVE IntegrityInv'
  <2>1. UNCHANGED chainVars /\ UNCHANGED sealVars
    BY <1>8 DEF RotateKem, RotateSignature
  <2> QED
    BY <1>2, <1>3, <2>1 DEF IntegrityInv
<1> QED
  BY <1>4, <1>5, <1>6, <1>7, <1>8 DEF IntegrityNext

LEMMA IntegrityLinks ==
    ASSUME IntegrityInv
    PROVE  ChainIsLinked
BY DEF IntegrityInv, Linked, SealsStand, ChainIsLinked, Entries

-----------------------------------------------------------------------------
(* In the deployment. *)

DefenseInv == (part = "votes" => VotesInv) /\ (part = "integrity" => IntegrityInv)

LEMMA InitDefense == PlatformInit => DefenseInv
BY InitVotes, InitIntegrity DEF PlatformInit, DefenseInv

LEMMA DefenseStep ==
    ASSUME DefenseInv, [PlatformNext]_platformVars
    PROVE  DefenseInv'
<1>1. CASE VotesRuns
  BY <1>1, VotesStep DEF VotesRuns, DefenseInv
<1>2. CASE IntegrityRuns
  BY <1>2, IntegrityStep DEF IntegrityRuns, DefenseInv
<1>3. CASE \/ IdentityRuns \/ VoiceRuns \/ FailSafeRuns \/ EnforcementRuns \/ CommercialRuns
           \/ DevicesRuns \/ TutorRuns \/ CouncilRuns \/ GatewayRuns \/ AssuranceRuns
           \/ FusionRuns \/ AwarenessRuns \/ TitanRuns \/ RoadRuns
  <2>1. part \notin {"votes", "integrity"} /\ part' = part
    BY <1>3 DEF IdentityRuns, VoiceRuns, FailSafeRuns, EnforcementRuns, CommercialRuns,
       DevicesRuns, TutorRuns, CouncilRuns, GatewayRuns, AssuranceRuns, FusionRuns,
       AwarenessRuns, TitanRuns, RoadRuns
  <2> QED
    BY <2>1 DEF DefenseInv
<1>4. CASE UNCHANGED platformVars
  <2>1. UNCHANGED <<part, votesVars, integrityVars>>
    BY <1>4 DEF platformVars
  <2>2. VotesInv => VotesInv'
    BY <2>1 DEF votesVars, VotesInv, VotesTypeOK, CommitIsQuorate
  <2>3. IntegrityInv => IntegrityInv'
    BY <2>1 DEF integrityVars, chainVars, sealVars, IntegrityInv, ChainTyped, Linked, Entries,
       SealsStand
  <2> QED
    BY <2>1, <2>2, <2>3 DEF DefenseInv
<1> QED
  BY <1>1, <1>2, <1>3, <1>4 DEF PlatformNext

\* Whoever was told that a proposal is committed was told so of the one vote
\* that a quorum of different nodes verified; and the integrity chain is one
\* gapless line in which every accepted state stands, while the seal store has
\* what was answered sealed unless two seals overlapped.
THEOREM DefenseStands == PlatformSpec => []DefenseHolds
<1>1. ASSUME DefenseInv PROVE DefenseHolds
  BY <1>1, IntegrityLinks DEF DefenseInv, DefenseHolds, VotesInv
<1>2. DefenseInv /\ [PlatformNext]_platformVars => DefenseInv'
  BY DefenseStep
<1> QED
  BY <1>1, <1>2, InitDefense, PTL DEF PlatformSpec
=============================================================================
