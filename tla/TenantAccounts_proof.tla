------------------------ MODULE TenantAccounts_proof ------------------------
(* Proofs about the people of a tenant: their photos, their sign-ins and the *)
(* accounts and keys that these go by.                                       *)
EXTENDS Tenant, FiniteSets, FiniteSetTheorems, FunctionTheorems, WellFoundedInduction, TLAPS

(* Each part runs as its own module says.                                    *)

LEMMA HistoryRuns == Spec => History!Spec
<1>1. Init => History!Init
  BY DEF Init
<1>2. [Next]_tenantVars => [History!Next]_(History!historyVars)
  BY DEF Next, tenantVars, CatalogStep, SettingsStep, RiskStep, AlertsStep, AccountsStep, PhotoStep, ReportsStep,
     GoogleStep, HistoryStep, historyVars, History!historyVars
<1> QED BY <1>1, <1>2, PTL DEF Spec, History!Spec

LEMMA GoogleRuns == Spec => Google!Spec
<1>1. Init => Google!Init
  BY DEF Init
<1>2. [Next]_tenantVars => [Google!Next]_(Google!keyVars)
  BY DEF Next, tenantVars, CatalogStep, SettingsStep, RiskStep, AlertsStep, AccountsStep, PhotoStep, ReportsStep,
     GoogleStep, HistoryStep, keyVars, Google!keyVars
<1> QED BY <1>1, <1>2, PTL DEF Spec, Google!Spec

LEMMA AccountsRun == Spec => Accounts!Spec
<1>1. Init => Accounts!Init
  BY DEF Init
<1>2. [Next]_tenantVars => [Accounts!Next]_(Accounts!signInVars)
  BY DEF Next, tenantVars, CatalogStep, SettingsStep, RiskStep, AlertsStep, AccountsStep, PhotoStep, ReportsStep,
     GoogleStep, HistoryStep, accountVars, Accounts!signInVars, Accounts!providerVars
<1> QED BY <1>1, <1>2, PTL DEF Spec, Accounts!Spec

LEMMA PhotoRuns == Spec => Photo!Spec
<1>1. Init => Photo!Init
  BY DEF Init
<1>2. [Next]_tenantVars => [Photo!Next]_(Photo!profileVars)
  BY DEF Next, tenantVars, CatalogStep, SettingsStep, RiskStep, AlertsStep, AccountsStep, PhotoStep, ReportsStep,
     GoogleStep, HistoryStep, photoVars, Photo!profileVars
<1> QED BY <1>1, <1>2, PTL DEF Spec, Photo!Spec
------------------------------------------------------------------------------
(* Counting.                                                                 *)

\* An instance counts with operators of its own, which are the same.
LEMMA HistoryCounts == \A S : History!Cardinality(S) = Cardinality(S) /\ History!IsFiniteSet(S) = IsFiniteSet(S)
BY DEF History!Cardinality, Cardinality, History!IsFiniteSet, IsFiniteSet

\* A set of numbers has a least one.
LEMMA LeastNumber ==
  ASSUME NEW S \in SUBSET Nat, S # {}
  PROVE  \E m \in S : \A n \in S : m <= n
<1> DEFINE Less == {p \in Nat \X Nat : p[1] < p[2]}
<1>1. IsWellFoundedOn(Less, Nat)
  BY NatLessThanWellFounded DEF OpToRel
<1>2. \A n, m \in Nat : n < m => <<n, m>> \in Less
  OBVIOUS
<1>3. PICK m \in S : \A n \in S : ~(<<n, m>> \in Less)
  <2> HIDE DEF Less
  <2> QED BY <1>1, WFMin
<1> HIDE DEF Less
<1>4. \A n \in S : n \in Nat /\ m \in Nat
  OBVIOUS
<1>5. \A n \in S : ~(n < m)
  BY <1>2, <1>3, <1>4, Zenon
<1> QED BY <1>4, <1>5

\* Two sets have no more elements together than each by itself.
LEMMA FewTogether ==
  ASSUME NEW S, NEW T, IsFiniteSet(S), IsFiniteSet(T), NEW m \in Nat, NEW n \in Nat,
         Cardinality(S) <= m, Cardinality(T) <= n
  PROVE  IsFiniteSet(S \cup T) /\ Cardinality(S \cup T) \in Nat /\ Cardinality(S \cup T) <= m + n
<1>1. IsFiniteSet(S \cup T) /\ Cardinality(S \cup T) = Cardinality(S) + Cardinality(T) - Cardinality(S \cap T)
  BY FS_Union
<1>2. Cardinality(S \cap T) \in Nat
  BY FS_Intersection, FS_CardinalityType
<1>3. Cardinality(S \cup T) \in Nat /\ Cardinality(S) \in Nat /\ Cardinality(T) \in Nat
  BY <1>1, FS_CardinalityType
<1> QED BY <1>1, <1>2, <1>3
------------------------------------------------------------------------------
(* Profile.                                                                  *)

PhotoKey == (1 .. made) \cup {NoPhoto}
PhotoTypeOK ==
  /\ made \in Nat /\ avatar_key \in PhotoKey
  /\ change \in [Requests -> [pc : {"idle", "begun", "put", "committed"}, key : PhotoKey, previous : PhotoKey]]

Uncommitted(r) == change[r].pc \in {"begun", "put"} /\ change[r].key # NoPhoto
\* The key of an upload is nobody else's until it is committed.
KeyIsFresh ==
  \A r \in Requests : Uncommitted(r) =>
    /\ change[r].key # avatar_key
    /\ \A q \in Requests : change[q].previous # change[r].key
    /\ \A q \in Requests \ {r} : change[q].key # change[r].key
\* A key is written once its object is there.
PutIsStored == \A r \in Requests : change[r].pc = "put" /\ change[r].key # NoPhoto => change[r].key \in stored
\* What a request discards the row does not name.
PreviousIsGone ==
  \A r \in Requests : change[r].pc = "committed" /\ change[r].previous # NoPhoto => change[r].previous # avatar_key

PhotoInv == PhotoTypeOK /\ KeyIsFresh /\ PutIsStored /\ PreviousIsGone /\ Photo!PhotoIsStored

LEMMA PhotoInitially == Photo!Init => PhotoInv
BY DEF Photo!Init, Photo!NoChange, PhotoInv, PhotoTypeOK, PhotoKey, KeyIsFresh, Uncommitted, PutIsStored, PreviousIsGone,
   Photo!PhotoIsStored

LEMMA BeginKeeps ==
  ASSUME PhotoInv, NEW r \in Requests, Photo!SetAvatar(r) \/ Photo!RemoveAvatar(r)
  PROVE  PhotoInv'
<1> DEFINE new == change'[r]
<1>1. \A q \in Requests \ {r} : change'[q] = change[q]
  BY DEF PhotoInv, PhotoTypeOK, Photo!SetAvatar, Photo!RemoveAvatar
<1>2. /\ avatar_key' = avatar_key /\ stored' = stored /\ made' \in {made, made + 1}
      /\ new.previous = avatar_key
      /\ \/ new = [pc |-> "begun", key |-> made', previous |-> avatar_key] /\ made' = made + 1
         \/ new = [pc |-> "put", key |-> NoPhoto, previous |-> avatar_key] /\ made' = made
  BY DEF PhotoInv, PhotoTypeOK, Photo!SetAvatar, Photo!RemoveAvatar
<1>3. made' \in Nat /\ PhotoKey \subseteq PhotoKey' /\ new.key \in PhotoKey'
  BY <1>2 DEF PhotoInv, PhotoTypeOK, PhotoKey
<1>4. PhotoTypeOK'
  BY <1>1, <1>2, <1>3 DEF PhotoInv, PhotoTypeOK, Photo!SetAvatar, Photo!RemoveAvatar
<1>5. KeyIsFresh'
  <2>1. made + 1 \notin PhotoKey
    BY PhotoAssumptions DEF PhotoInv, PhotoTypeOK, PhotoKey, Photo!PhotoAssumption
  <2>2. ASSUME NEW q \in Requests PROVE change[q].key \in PhotoKey /\ change[q].previous \in PhotoKey
    BY DEF PhotoInv, PhotoTypeOK
  <2>3. avatar_key \in PhotoKey
    BY DEF PhotoInv, PhotoTypeOK
  <2> QED BY <1>1, <1>2, <2>1, <2>2, <2>3 DEF PhotoInv, KeyIsFresh, Uncommitted
<1>6. PutIsStored' /\ PreviousIsGone'
  BY <1>1, <1>2 DEF PhotoInv, PutIsStored, PreviousIsGone
<1> QED BY <1>2, <1>4, <1>5, <1>6 DEF PhotoInv, Photo!PhotoIsStored

LEMMA PutKeeps ==
  ASSUME PhotoInv, NEW r \in Requests, Photo!Put(r)
  PROVE  PhotoInv'
<1>1. \A q \in Requests : change'[q] = IF q = r THEN [change[r] EXCEPT !.pc = "put"] ELSE change[q]
  BY DEF PhotoInv, PhotoTypeOK, Photo!Put
<1>2. /\ change[r].pc = "begun" /\ change'[r].pc = "put"
      /\ \A q \in Requests : change'[q].key = change[q].key /\ change'[q].previous = change[q].previous
  BY <1>1 DEF PhotoInv, PhotoTypeOK, Photo!Put
<1>3. avatar_key' = avatar_key /\ made' = made /\ stored' = stored \cup {change[r].key}
  BY DEF Photo!Put
<1>4. PhotoTypeOK'
  BY <1>3 DEF PhotoInv, PhotoTypeOK, Photo!Put, PhotoKey
<1>5. KeyIsFresh' /\ PutIsStored' /\ PreviousIsGone'
  BY <1>1, <1>2, <1>3 DEF PhotoInv, KeyIsFresh, Uncommitted, PutIsStored, PreviousIsGone
<1> QED BY <1>3, <1>4, <1>5 DEF PhotoInv, Photo!PhotoIsStored

LEMMA CommitKeeps ==
  ASSUME PhotoInv, NEW r \in Requests, Photo!Commit(r)
  PROVE  PhotoInv'
<1>1. \A q \in Requests : change'[q] = IF q = r THEN [change[r] EXCEPT !.pc = "committed"] ELSE change[q]
  BY DEF PhotoInv, PhotoTypeOK, Photo!Commit
<1>2. /\ change[r].pc = "put" /\ change'[r].pc = "committed"
      /\ \A q \in Requests : change'[q].key = change[q].key /\ change'[q].previous = change[q].previous
  BY <1>1 DEF PhotoInv, PhotoTypeOK, Photo!Commit
<1>3. /\ made' = made /\ stored' = stored
      /\ avatar_key' = IF change[r].key = change[r].previous THEN avatar_key ELSE change[r].key
  BY DEF Photo!Commit
<1>4. PhotoTypeOK'
  BY <1>3 DEF PhotoInv, PhotoTypeOK, Photo!Commit, PhotoKey
<1>5. KeyIsFresh'
  BY <1>1, <1>2, <1>3 DEF PhotoInv, KeyIsFresh, Uncommitted
<1>6. PutIsStored' /\ Photo!PhotoIsStored'
  BY <1>1, <1>2, <1>3 DEF PhotoInv, PutIsStored, Photo!PhotoIsStored
<1>7. PreviousIsGone'
  <2>1. change[r].key # NoPhoto => \A q \in Requests : change[q].previous # change[r].key
    BY <1>2 DEF PhotoInv, KeyIsFresh, Uncommitted
  <2> QED BY <1>1, <1>2, <1>3, <2>1 DEF PhotoInv, PreviousIsGone
<1> QED BY <1>4, <1>5, <1>6, <1>7 DEF PhotoInv

\* A request that ends, whether it has discarded what it replaced or not.
LEMMA DiscardKeeps ==
  ASSUME PhotoInv, NEW r \in Requests, Photo!Discard(r) \/ Photo!Fails(r)
  PROVE  PhotoInv'
<1>1. change' = [change EXCEPT ![r] = Photo!NoChange]
  BY DEF PhotoInv, PhotoTypeOK, Photo!Discard, Photo!MayDiscard, Photo!Fails
<1>2. \A q \in Requests : change'[q] = IF q = r THEN Photo!NoChange ELSE change[q]
  BY <1>1 DEF PhotoInv, PhotoTypeOK
<1>3. avatar_key' = avatar_key /\ made' = made
  BY DEF Photo!Discard, Photo!Fails
<1>4. stored' = stored \/ (change[r].pc = "committed" /\ stored' = stored \ {change[r].previous})
  BY DEF Photo!Discard, Photo!MayDiscard, Photo!Fails
<1>5. PhotoTypeOK'
  BY <1>1, <1>3 DEF PhotoInv, PhotoTypeOK, PhotoKey, Photo!NoChange
<1>6. KeyIsFresh' /\ PreviousIsGone'
  BY <1>2, <1>3 DEF PhotoInv, KeyIsFresh, Uncommitted, PreviousIsGone, Photo!NoChange
<1>7. PutIsStored'
  BY <1>2, <1>4 DEF PhotoInv, PutIsStored, KeyIsFresh, Uncommitted, Photo!NoChange
<1>8. Photo!PhotoIsStored'
  BY <1>3, <1>4 DEF PhotoInv, PreviousIsGone, Photo!PhotoIsStored
<1> QED BY <1>5, <1>6, <1>7, <1>8 DEF PhotoInv

LEMMA PhotoStays == Spec => []Photo!PhotoIsStored
<1>1. PhotoInv /\ [Photo!Next]_(Photo!profileVars) => PhotoInv'
  <2>1. PhotoInv /\ UNCHANGED Photo!profileVars => PhotoInv'
    BY DEF Photo!profileVars, PhotoInv, PhotoTypeOK, PhotoKey, KeyIsFresh, Uncommitted, PutIsStored, PreviousIsGone,
       Photo!PhotoIsStored
  <2> QED BY <2>1, BeginKeeps, PutKeeps, CommitKeeps, DiscardKeeps DEF Photo!Next
<1>2. Photo!Spec => []PhotoInv
  BY <1>1, PhotoInitially, PTL DEF Photo!Spec
<1>3. PhotoInv => Photo!PhotoIsStored
  BY DEF PhotoInv
<1> QED BY <1>2, <1>3, PhotoRuns, PTL

------------------------------------------------------------------------------
(* SignInHistory.                                                            *)

LoginRow == [at : Nat, id : Nat]
Login == [pc : {"idle", "begun", "flushed", "pruned"}, row : LoginRow, old : SUBSET LoginRow]
HistoryTypeOK ==
  /\ moment \in Nat /\ last_id \in Nat
  /\ signed_in \in SUBSET LoginRow /\ IsFiniteSet(signed_in) /\ login_events \subseteq signed_in
  /\ recording \in [Logins -> Login]

Numbered(l) == recording[l].pc \in {"flushed", "pruned"}
\* The rows that were flushed have numbers of their own.
IdsAreUnique ==
  /\ \A r \in signed_in : r.id <= last_id
  /\ \A l \in Logins : Numbered(l) =>
       /\ recording[l].row.id <= last_id
       /\ \A r \in signed_in : r.id # recording[l].row.id
       /\ \A q \in Logins \ {l} : Numbered(q) => recording[q].row.id # recording[l].row.id
Pruned == {l \in Logins : recording[l].pc = "pruned"}
\* What a sign-in deletes it has seen enough newer ones of.
OldIsOutdone ==
  \A l \in Pruned : \A r \in recording[l].old :
    /\ r \in signed_in \cup {recording[l].row}
    /\ Cardinality(History!NewerThan(r, signed_in \cup {recording[l].row})) >= LOGIN_HISTORY_KEEP
DeletedIsOutdone ==
  \A r \in signed_in \ login_events : Cardinality(History!NewerThan(r, signed_in)) >= LOGIN_HISTORY_KEEP

\* What is left once the sign-ins of S have been committed.
RowsOf(S) == {recording[l].row : l \in S}
OldOf(S) == UNION {recording[l].old : l \in S}
Left(S) == (login_events \cup RowsOf(S)) \ OldOf(S)
\* Whichever of them are committed, there are not too many left.
FewAreLeft ==
  \A S \in SUBSET Pruned : Cardinality(Left(S)) <= LOGIN_HISTORY_KEEP + Cardinality(Logins) - 1

HistoryInv == HistoryTypeOK /\ IdsAreUnique /\ OldIsOutdone /\ DeletedIsOutdone /\ FewAreLeft

\* More rows have more newer ones.
LEMMA NewerGrows ==
  ASSUME NEW R, IsFiniteSet(R), NEW Q \in SUBSET R, NEW r
  PROVE  /\ Cardinality(History!NewerThan(r, Q)) \in Nat
         /\ Cardinality(History!NewerThan(r, R)) \in Nat
         /\ Cardinality(History!NewerThan(r, Q)) <= Cardinality(History!NewerThan(r, R))
<1>1. History!NewerThan(r, Q) \subseteq History!NewerThan(r, R) /\ History!NewerThan(r, R) \subseteq R
  BY DEF History!NewerThan
<1>2. IsFiniteSet(History!NewerThan(r, R)) /\ IsFiniteSet(History!NewerThan(r, Q))
  BY <1>1, FS_Subset
<1> QED BY <1>1, <1>2, FS_Subset, FS_CardinalityType

\* A set of rows has an oldest one.
LEMMA OldestRow ==
  ASSUME NEW R \in SUBSET LoginRow, R # {}
  PROVE  \E r \in R : \A s \in R \ {r} : s \in History!NewerThan(r, R)
<1>1. PICK t \in {r.at : r \in R} : \A u \in {r.at : r \in R} : t <= u
  <2>1. {r.at : r \in R} \in SUBSET Nat /\ {r.at : r \in R} # {}
    BY DEF LoginRow
  <2> QED BY <2>1, LeastNumber
<1> DEFINE Early == {r \in R : r.at = t}
<1>2. PICK i \in {r.id : r \in Early} : \A j \in {r.id : r \in Early} : i <= j
  <2>1. {r.id : r \in Early} \in SUBSET Nat /\ {r.id : r \in Early} # {}
    BY DEF LoginRow
  <2> QED BY <2>1, LeastNumber
<1>3. PICK r \in R : r.at = t /\ r.id = i
  OBVIOUS
<1>4. ASSUME NEW s \in R \ {r}
      PROVE  s.at > r.at \/ (s.at = r.at /\ s.id > r.id)
  <2>1. s.at \in Nat /\ r.at \in Nat /\ s.id \in Nat /\ r.id \in Nat /\ t <= s.at
    BY <1>1 DEF LoginRow
  <2>2. s.at = t => i <= s.id
    BY <1>2
  <2>3. s.at # r.at \/ s.id # r.id
    BY DEF LoginRow
  <2> QED BY <1>3, <2>1, <2>2, <2>3
<1> QED BY <1>3, <1>4 DEF History!NewerThan

\* No more are kept than the limit says.
LEMMA KeepIsFew ==
  ASSUME NEW R \in SUBSET LoginRow, IsFiniteSet(R)
  PROVE  IsFiniteSet(History!Keep(R)) /\ Cardinality(History!Keep(R)) \in 0 .. LOGIN_HISTORY_KEEP
<1> DEFINE K == History!Keep(R)
<1>1. K \subseteq R /\ IsFiniteSet(K) /\ Cardinality(K) \in Nat
  BY FS_Subset, FS_CardinalityType DEF History!Keep
<1>2. CASE K = {}
  BY <1>1, <1>2, FS_EmptySet, HistoryAssumptions DEF History!KeepAssumption
<1>3. CASE K # {}
  <2>1. PICK r \in K : \A s \in K \ {r} : s \in History!NewerThan(r, K)
    BY <1>1, <1>3, OldestRow
  <2>2. Cardinality(K \ {r}) = Cardinality(K) - 1 /\ IsFiniteSet(K \ {r})
    BY <1>1, FS_RemoveElement
  <2>3. K \ {r} \subseteq History!NewerThan(r, R)
    BY <1>1, <2>1 DEF History!NewerThan
  <2>4. IsFiniteSet(History!NewerThan(r, R))
    BY FS_Subset DEF History!NewerThan
  <2>5. Cardinality(K \ {r}) <= Cardinality(History!NewerThan(r, R)) /\ Cardinality(History!NewerThan(r, R)) \in Nat
    BY <2>3, <2>4, FS_Subset, FS_CardinalityType
  <2>6. Cardinality(History!NewerThan(r, R)) < LOGIN_HISTORY_KEEP
    BY HistoryCounts DEF History!Keep
  <2> QED BY <1>1, <2>2, <2>5, <2>6, HistoryAssumptions DEF History!KeepAssumption
<1> QED BY <1>2, <1>3

LEMMA HistoryInitially == History!Init => HistoryInv
<1> SUFFICES ASSUME History!Init PROVE HistoryInv
  OBVIOUS
<1>1. /\ login_events = {} /\ signed_in = {} /\ \A l \in Logins : recording[l] = History!NoLogin
      /\ History!NoLogin.pc = "idle"
  BY DEF History!Init, History!NoLogin
<1>2. HistoryTypeOK
  BY FS_EmptySet DEF History!Init, HistoryTypeOK, History!NoLogin, Login, LoginRow
<1>3. IdsAreUnique /\ OldIsOutdone /\ DeletedIsOutdone
  BY <1>1 DEF IdsAreUnique, Numbered, OldIsOutdone, Pruned, DeletedIsOutdone
<1>4. FewAreLeft
  <2>1. \A S \in SUBSET Pruned : Left(S) = {}
    BY <1>1 DEF Pruned, Left, RowsOf
  <2>2. Cardinality(Logins) \in Nat
    BY HistoryAssumptions, HistoryCounts, FS_CardinalityType DEF History!LoginAssumption
  <2> QED BY <2>1, <2>2, FS_EmptySet, HistoryAssumptions DEF FewAreLeft, History!KeepAssumption
<1> QED BY <1>2, <1>3, <1>4 DEF HistoryInv

\* What neither commits nor sees rows keeps what is left of them: here the steps
\* that leave the pruned sign-ins as they are, or take some away.
LEMMA HistoryFrame ==
  ASSUME HistoryInv, HistoryTypeOK', IdsAreUnique', UNCHANGED <<login_events, signed_in>>,
         \A l \in Pruned' : l \in Pruned /\ recording'[l] = recording[l]
  PROVE  HistoryInv'
<1>1. OldIsOutdone' /\ DeletedIsOutdone'
  BY DEF HistoryInv, OldIsOutdone, DeletedIsOutdone, History!NewerThan
<1>2. \A S \in SUBSET Pruned' : S \in SUBSET Pruned /\ Left(S)' = Left(S)
  BY DEF Left, RowsOf, OldOf
<1>3. FewAreLeft'
  BY <1>2 DEF HistoryInv, FewAreLeft
<1> QED BY <1>1, <1>3 DEF HistoryInv

LEMMA LoginBegins ==
  ASSUME HistoryInv, NEW l \in Logins, History!Begin(l)
  PROVE  HistoryInv'
<1>1. /\ recording'[l].pc = "begun"
      /\ \A q \in Logins \ {l} : recording'[q] = recording[q]
  BY DEF HistoryInv, HistoryTypeOK, History!Begin
<1>2. HistoryTypeOK'
  <2> DEFINE new == [recording[l] EXCEPT !.pc = "begun", !.row = [@ EXCEPT !.at = moment]]
  <2>1. new \in Login
    BY DEF HistoryInv, HistoryTypeOK, Login, LoginRow
  <2>2. recording' = [recording EXCEPT ![l] = new]
    BY DEF HistoryInv, HistoryTypeOK, History!Begin
  <2> HIDE DEF new
  <2> QED BY <2>1, <2>2 DEF HistoryInv, HistoryTypeOK, History!Begin
<1>3. IdsAreUnique'
  BY <1>1 DEF HistoryInv, IdsAreUnique, Numbered, History!Begin
<1> QED BY <1>1, <1>2, <1>3, HistoryFrame DEF Pruned, History!Begin

LEMMA LoginFlushes ==
  ASSUME HistoryInv, NEW l \in Logins, History!Flush(l)
  PROVE  HistoryInv'
<1>1. /\ recording'[l].pc = "flushed" /\ recording'[l].row.id = last_id + 1 /\ last_id' = last_id + 1
      /\ \A q \in Logins \ {l} : recording'[q] = recording[q]
  BY DEF HistoryInv, HistoryTypeOK, History!Flush, Login, LoginRow
<1>2. HistoryTypeOK'
  <2> DEFINE row == [recording[l].row EXCEPT !.id = last_id']
             new == [recording[l] EXCEPT !.pc = "flushed", !.row = row]
  <2>1. last_id' \in Nat /\ recording[l] \in Login /\ recording[l].row \in LoginRow
    BY <1>1 DEF HistoryInv, HistoryTypeOK, Login
  <2>2. row \in LoginRow
    BY <2>1 DEF LoginRow
  <2>3. recording' = [recording EXCEPT ![l] = new]
    BY DEF HistoryInv, HistoryTypeOK, History!Flush
  <2>4. new \in Login
    <3> HIDE DEF row
    <3> QED BY <2>1, <2>2 DEF Login
  <2> HIDE DEF new
  <2> QED BY <2>1, <2>3, <2>4 DEF HistoryInv, HistoryTypeOK, History!Flush
<1>3. IdsAreUnique'
  <2>1. \A q \in Logins : recording[q].row.id \in Nat
    BY DEF HistoryInv, HistoryTypeOK, Login, LoginRow
  <2>2. \A r \in signed_in : r.id \in Nat
    BY DEF HistoryInv, HistoryTypeOK, Login, LoginRow
  <2> QED BY <1>1, <2>1, <2>2 DEF HistoryInv, HistoryTypeOK, IdsAreUnique, Numbered, History!Flush
<1> QED BY <1>1, <1>2, <1>3, HistoryFrame DEF Pruned, History!Flush

LEMMA LoginFails ==
  ASSUME HistoryInv, NEW l \in Logins, History!Fails(l)
  PROVE  HistoryInv'
<1>1. recording'[l].pc = "idle" /\ \A q \in Logins \ {l} : recording'[q] = recording[q]
  BY DEF HistoryInv, HistoryTypeOK, History!Fails, History!NoLogin
<1>2. HistoryTypeOK'
  BY DEF HistoryInv, HistoryTypeOK, History!Fails, History!NoLogin, Login, LoginRow
<1>3. IdsAreUnique'
  BY <1>1 DEF HistoryInv, IdsAreUnique, Numbered, History!Fails
<1> QED BY <1>1, <1>2, <1>3, HistoryFrame DEF Pruned, History!Fails

\* A sign-in has one row.
LEMMA RowsAreFew ==
  ASSUME NEW T \in SUBSET Logins
  PROVE  /\ IsFiniteSet(T) /\ Cardinality(T) \in Nat
         /\ IsFiniteSet(RowsOf(T)) /\ Cardinality(RowsOf(T)) \in Nat /\ Cardinality(RowsOf(T)) <= Cardinality(T)
<1>1. IsFiniteSet(T)
  BY HistoryAssumptions, HistoryCounts, FS_Subset DEF History!LoginAssumption
<1> DEFINE f == [l \in T |-> recording[l].row]
<1>2. f \in Surjection(T, RowsOf(T))
  BY DEF RowsOf, Surjection
<1> QED BY <1>1, <1>2, FS_Surjection, FS_CardinalityType

LEMMA LoginPrunes ==
  ASSUME HistoryInv, NEW l \in Logins, History!Prune(l)
  PROVE  HistoryInv'
<1> DEFINE seen == login_events \cup {recording[l].row}
           old == seen \ History!Keep(seen)
           new == [recording[l] EXCEPT !.pc = "pruned", !.old = old]
<1>1. recording[l].row \in LoginRow /\ seen \in SUBSET LoginRow /\ IsFiniteSet(seen)
  <2>1. IsFiniteSet(login_events)
    BY FS_Subset DEF HistoryInv, HistoryTypeOK
  <2> QED BY <2>1, FS_AddElement DEF HistoryInv, HistoryTypeOK, Login
<1>2. /\ recording' = [recording EXCEPT ![l] = new] /\ recording[l].pc = "flushed"
      /\ UNCHANGED <<login_events, signed_in, last_id, moment>>
  BY DEF HistoryInv, HistoryTypeOK, History!Prune
<1>3. new \in Login /\ new.pc = "pruned" /\ new.row = recording[l].row /\ new.old = old
  <2>1. old \in SUBSET LoginRow /\ recording[l] \in Login
    BY <1>1 DEF HistoryInv, HistoryTypeOK
  <2> HIDE DEF old
  <2> QED BY <2>1 DEF Login
<1>4. old \subseteq seen /\ \A r \in old : Cardinality(History!NewerThan(r, seen)) >= LOGIN_HISTORY_KEEP
  <2>1. \A r \in seen : Cardinality(History!NewerThan(r, seen)) \in Nat
    BY <1>1, NewerGrows
  <2> HIDE DEF seen
  <2> QED BY <2>1, HistoryCounts, HistoryAssumptions DEF History!Keep, History!KeepAssumption
<1> HIDE DEF new, old
<1>5. recording'[l] = new /\ \A q \in Logins \ {l} : recording'[q] = recording[q]
  BY <1>2 DEF HistoryInv, HistoryTypeOK
<1>6. HistoryTypeOK' /\ IdsAreUnique'
  <2>1. HistoryTypeOK'
    BY <1>2, <1>3 DEF HistoryInv, HistoryTypeOK
  <2> QED BY <1>2, <1>3, <1>5, <2>1 DEF HistoryInv, IdsAreUnique, Numbered
<1>7. Pruned' = Pruned \cup {l} /\ l \notin Pruned
  BY <1>2, <1>3, <1>5 DEF Pruned
<1>8. OldIsOutdone' /\ DeletedIsOutdone'
  <2>1. ASSUME NEW r \in old
        PROVE  /\ r \in signed_in \cup {recording[l].row}
               /\ Cardinality(History!NewerThan(r, signed_in \cup {recording[l].row})) >= LOGIN_HISTORY_KEEP
    <3>1. seen \in SUBSET (signed_in \cup {recording[l].row}) /\ IsFiniteSet(signed_in \cup {recording[l].row})
      BY FS_AddElement DEF HistoryInv, HistoryTypeOK
    <3> HIDE DEF seen
    <3> QED BY <1>4, <3>1, NewerGrows, HistoryAssumptions DEF History!KeepAssumption
  <2>2. recording'[l].old = old /\ recording'[l].row = recording[l].row
    BY <1>3, <1>5
  <2>3. OldIsOutdone'
    BY <1>2, <1>5, <1>7, <2>1, <2>2 DEF HistoryInv, OldIsOutdone, Pruned, History!NewerThan
  <2>4. DeletedIsOutdone'
    BY <1>2 DEF HistoryInv, DeletedIsOutdone, History!NewerThan
  <2> QED BY <2>3, <2>4
<1>9. FewAreLeft'
  <2> SUFFICES ASSUME NEW S \in SUBSET (Pruned')
               PROVE  Cardinality(Left(S)') <= LOGIN_HISTORY_KEEP + Cardinality(Logins) - 1
    BY DEF FewAreLeft
  <2>1. CASE l \notin S
    <3>1. S \in SUBSET Pruned /\ Left(S)' = Left(S)
      BY <1>2, <1>5, <1>7, <2>1 DEF Left, RowsOf, OldOf, Pruned
    <3> QED BY <3>1 DEF HistoryInv, FewAreLeft
  <2>2. CASE l \in S
    <3> DEFINE T == S \ {l}
    <3>1. T \in SUBSET Logins /\ S = T \cup {l} /\ Cardinality(T) <= Cardinality(Logins) - 1
      <4>1. T \in SUBSET (Logins \ {l}) /\ S = T \cup {l}
        BY <2>2 DEF Pruned
      <4>2. IsFiniteSet(Logins) /\ Cardinality(Logins) \in Nat
        BY HistoryAssumptions, HistoryCounts, FS_CardinalityType DEF History!LoginAssumption
      <4> QED BY <4>1, <4>2, FS_Subset, FS_RemoveElement, FS_CardinalityType
    <3>2. Left(S)' \subseteq History!Keep(seen) \cup RowsOf(T)
      <4>1. RowsOf(S)' = RowsOf(T) \cup {recording[l].row}
        BY <1>3, <1>5, <3>1 DEF RowsOf
      <4>2. old \subseteq OldOf(S)'
        BY <1>3, <1>5, <2>2 DEF OldOf
      <4> QED BY <1>2, <4>1, <4>2 DEF Left, old
    <3> HIDE DEF T
    <3>3. /\ IsFiniteSet(History!Keep(seen)) /\ Cardinality(History!Keep(seen)) \in 0 .. LOGIN_HISTORY_KEEP
      <4> HIDE DEF seen
      <4> QED BY <1>1, KeepIsFew
    <3>4. /\ IsFiniteSet(RowsOf(T)) /\ Cardinality(RowsOf(T)) \in Nat /\ Cardinality(T) \in Nat
          /\ Cardinality(RowsOf(T)) <= Cardinality(T)
      BY <3>1, RowsAreFew
    <3> HIDE DEF seen
    <3>5. /\ IsFiniteSet(History!Keep(seen) \cup RowsOf(T))
          /\ Cardinality(History!Keep(seen) \cup RowsOf(T)) <= LOGIN_HISTORY_KEEP + Cardinality(T)
          /\ Cardinality(History!Keep(seen) \cup RowsOf(T)) \in Nat
      <4> DEFINE K == History!Keep(seen)
                 R == RowsOf(T)
      <4>1. IsFiniteSet(K) /\ IsFiniteSet(R) /\ Cardinality(K) <= LOGIN_HISTORY_KEEP /\ Cardinality(R) <= Cardinality(T)
        BY <3>3, <3>4, HistoryAssumptions DEF History!KeepAssumption
      <4>2. LOGIN_HISTORY_KEEP \in Nat /\ Cardinality(T) \in Nat
        BY <3>4, HistoryAssumptions DEF History!KeepAssumption
      <4> HIDE DEF K, R
      <4>3. IsFiniteSet(K \cup R) /\ Cardinality(K \cup R) <= LOGIN_HISTORY_KEEP + Cardinality(T) /\ Cardinality(K \cup R) \in Nat
        BY <4>1, <4>2, FewTogether
      <4> QED BY <4>3 DEF K, R
    <3>6. Cardinality(Left(S)') \in Nat /\ Cardinality(Left(S)') <= Cardinality(History!Keep(seen) \cup RowsOf(T))
      BY <3>2, <3>5, FS_Subset, FS_CardinalityType
    <3>7. Cardinality(Logins) \in Nat
      BY HistoryAssumptions, HistoryCounts, FS_CardinalityType DEF History!LoginAssumption
    <3> QED BY <3>1, <3>4, <3>5, <3>6, <3>7, HistoryAssumptions DEF History!KeepAssumption
  <2> QED BY <2>1, <2>2
<1> QED BY <1>6, <1>8, <1>9 DEF HistoryInv

LEMMA LoginCommits ==
  ASSUME HistoryInv, NEW l \in Logins, History!Commit(l)
  PROVE  HistoryInv'
<1> DEFINE row == recording[l].row
           old == recording[l].old
<1>1. /\ recording' = [recording EXCEPT ![l] = History!NoLogin] /\ recording[l].pc = "pruned"
      /\ signed_in' = signed_in \cup {row} /\ login_events' = (login_events \cup {row}) \ old
      /\ UNCHANGED <<last_id, moment>>
  BY DEF History!Commit
<1>2. History!NoLogin \in Login /\ History!NoLogin.pc = "idle" /\ row \in LoginRow
  BY DEF History!NoLogin, Login, LoginRow, HistoryInv, HistoryTypeOK
<1>3. recording'[l] = History!NoLogin /\ \A q \in Logins \ {l} : recording'[q] = recording[q]
  BY <1>1 DEF HistoryInv, HistoryTypeOK
<1>4. IsFiniteSet(signed_in') /\ signed_in \subseteq signed_in'
  BY <1>1, FS_AddElement DEF HistoryInv, HistoryTypeOK
<1>5. HistoryTypeOK'
  BY <1>1, <1>2, <1>4 DEF HistoryInv, HistoryTypeOK
<1>6. Numbered(l) /\ l \in Pruned /\ Pruned' = Pruned \ {l}
  BY <1>1, <1>2, <1>3 DEF Numbered, Pruned
<1> HIDE DEF row, old
<1>7. IdsAreUnique'
  <2>1. row.id <= last_id /\ \A q \in Logins \ {l} : Numbered(q) => recording[q].row.id # row.id
    BY <1>6 DEF HistoryInv, IdsAreUnique, row
  <2>2. \A q \in Logins : Numbered(q)' => q # l /\ Numbered(q)
    BY <1>2, <1>3 DEF Numbered
  <2> QED BY <1>1, <1>3, <2>1, <2>2 DEF HistoryInv, IdsAreUnique
<1>8. \A r : LOGIN_HISTORY_KEEP \in Nat /\ Cardinality(History!NewerThan(r, signed_in')) \in Nat
  BY <1>4, NewerGrows, HistoryAssumptions DEF History!KeepAssumption
<1>9. DeletedIsOutdone'
  <2> SUFFICES ASSUME NEW r \in signed_in' \ login_events'
               PROVE  Cardinality(History!NewerThan(r, signed_in')) >= LOGIN_HISTORY_KEEP
    BY <1>1 DEF DeletedIsOutdone, History!NewerThan
  <2>1. CASE r \in old
    BY <1>1, <1>6, <2>1 DEF HistoryInv, OldIsOutdone, row, old
  <2>2. CASE r \notin old
    <3>1. Cardinality(History!NewerThan(r, signed_in)) >= LOGIN_HISTORY_KEEP
      BY <1>1, <2>2 DEF HistoryInv, DeletedIsOutdone
    <3> QED BY <1>4, <1>8, <3>1, NewerGrows
  <2> QED BY <2>1, <2>2
<1>10. OldIsOutdone'
  <2> SUFFICES ASSUME NEW q \in Pruned, q # l, NEW r \in recording[q].old
               PROVE  /\ r \in signed_in' \cup {recording[q].row}
                      /\ Cardinality(History!NewerThan(r, signed_in' \cup {recording[q].row})) >= LOGIN_HISTORY_KEEP
    BY <1>3, <1>6 DEF OldIsOutdone, Pruned, History!NewerThan
  <2> DEFINE before == signed_in \cup {recording[q].row}
             after == signed_in' \cup {recording[q].row}
  <2>1. r \in before /\ Cardinality(History!NewerThan(r, before)) >= LOGIN_HISTORY_KEEP
    BY DEF HistoryInv, OldIsOutdone
  <2>2. before \in SUBSET after /\ IsFiniteSet(after)
    BY <1>4, FS_AddElement
  <2> HIDE DEF before, after
  <2>3. LOGIN_HISTORY_KEEP \in Nat
    BY <1>8
  <2>4. r \in after /\ Cardinality(History!NewerThan(r, after)) >= LOGIN_HISTORY_KEEP
    BY <2>1, <2>2, <2>3, NewerGrows
  <2> QED BY <2>4 DEF after
<1>11. FewAreLeft'
  <2> SUFFICES ASSUME NEW S \in SUBSET (Pruned \ {l})
               PROVE  Cardinality(Left(S)') <= LOGIN_HISTORY_KEEP + Cardinality(Logins) - 1
    BY <1>6 DEF FewAreLeft
  <2> DEFINE T == S \cup {l}
  <2>1. T \in SUBSET Pruned /\ T \in SUBSET Logins
    BY <1>6 DEF Pruned
  <2>2. RowsOf(S)' = RowsOf(S) /\ OldOf(S)' = OldOf(S) /\ RowsOf(T) = RowsOf(S) \cup {row} /\ OldOf(T) = OldOf(S) \cup old
    BY <1>3 DEF RowsOf, OldOf, row, old, Pruned
  <2>3. RowsOf(S) \cap old = {}
    <3>1. ASSUME NEW q \in S PROVE recording[q].row \notin old
      <4>1. old \subseteq signed_in \cup {row}
        BY <1>6 DEF HistoryInv, OldIsOutdone, row, old
      <4>2. recording[q].row \notin signed_in /\ recording[q].row # row
        BY <1>6 DEF HistoryInv, IdsAreUnique, Numbered, Pruned, row
      <4> QED BY <4>1, <4>2
    <3> QED BY <3>1 DEF RowsOf
  <2>4. Left(S)' \subseteq Left(T)
    BY <1>1, <2>2, <2>3 DEF Left
  <2>5. IsFiniteSet(Left(T))
    <3>1. IsFiniteSet(login_events) /\ IsFiniteSet(RowsOf(T))
      BY <2>1, RowsAreFew, FS_Subset DEF HistoryInv, HistoryTypeOK
    <3>2. IsFiniteSet(login_events \cup RowsOf(T))
      BY <3>1, FS_Union
    <3> QED BY <3>2, FS_Subset DEF Left
  <2>6. Cardinality(Left(T)) <= LOGIN_HISTORY_KEEP + Cardinality(Logins) - 1
    BY <2>1 DEF HistoryInv, FewAreLeft
  <2>7. Cardinality(Left(S)') <= Cardinality(Left(T)) /\ Cardinality(Left(S)') \in Nat /\ Cardinality(Left(T)) \in Nat
    BY <2>4, <2>5, FS_Subset, FS_CardinalityType
  <2>8. Cardinality(Logins) \in Nat
    BY HistoryAssumptions, HistoryCounts, FS_CardinalityType DEF History!LoginAssumption
  <2> QED BY <1>8, <2>6, <2>7, <2>8
<1> QED BY <1>5, <1>7, <1>9, <1>10, <1>11 DEF HistoryInv

LEMMA HistoryStays == Spec => []History!LoginsKept
<1>1. HistoryInv /\ [History!Next]_(History!historyVars) => HistoryInv'
  <2>1. ASSUME HistoryInv, History!Clock \/ UNCHANGED History!historyVars PROVE HistoryInv'
    <3>1. HistoryTypeOK' /\ UNCHANGED <<login_events, signed_in, last_id, recording>>
      BY <2>1 DEF History!Clock, History!historyVars, HistoryInv, HistoryTypeOK
    <3>2. IdsAreUnique' /\ Pruned' = Pruned
      BY <2>1, <3>1 DEF HistoryInv, IdsAreUnique, Numbered, Pruned
    <3> QED BY <2>1, <3>1, <3>2, HistoryFrame
  <2> QED BY <2>1, LoginBegins, LoginFlushes, LoginPrunes, LoginCommits, LoginFails DEF History!Next
<1>2. History!Spec => []HistoryInv
  BY <1>1, HistoryInitially, PTL DEF History!Spec
<1>3. HistoryInv => History!LoginsKept
  <2> SUFFICES ASSUME HistoryInv PROVE History!LoginsKept
    OBVIOUS
  <2>1. Left({}) = login_events /\ {} \in SUBSET Pruned
    BY DEF Left, RowsOf, OldOf
  <2>2. Cardinality(login_events) <= LOGIN_HISTORY_KEEP + Cardinality(Logins) - 1
    BY <2>1 DEF HistoryInv, FewAreLeft
  <2> QED BY <2>2, HistoryCounts DEF HistoryInv, DeletedIsOutdone, History!LoginsKept
<1> QED BY <1>2, <1>3, HistoryRuns, PTL

\* The photo of the row is in the storage (profile_service.set_avatar,
\* remove_avatar), and the newest sign-ins are on record, with no more than one
\* old one left by each that overlaps (record_login).
THEOREM ProfileIsKept == Spec => []ProfileKept
<1>1. Photo!PhotoIsStored /\ History!LoginsKept => ProfileKept
  BY DEF ProfileKept
<1> QED BY <1>1, PhotoStays, HistoryStays, PTL

------------------------------------------------------------------------------
(* SigningKeys.                                                              *)

Fetch ==
  [pc : {"idle", "metadata", "discover", "exchange", "look", "ask", "store", "use"}, then : {"idle", "exchange", "ask"},
   kid : Kids \cup {NoKid}, answer : SUBSET Kids, waited : 0 .. SlowTicks]
KeyTypeOK ==
  /\ published \in SUBSET Kids /\ keys \in SUBSET Kids /\ signing \in published
  /\ clock \in Nat /\ keys_at \in 0 .. clock /\ last \in [Kids -> Int]
  /\ fetch \in [Callbacks -> Fetch]

\* What is published is published now, and nothing was later than now.
PublishedNow == \A k \in Kids : last[k] <= clock /\ (k \in published => last[k] = clock)
\* The cache was no older than one answer when it was filled.
KeysWereNew == \A k \in keys : keys_at - last[k] <= SlowTicks

\* A request to Google is for the metadata of one step or the other.
Returns(c) == fetch[c].pc \in {"metadata", "discover"} => fetch[c].then \in {"exchange", "ask"}
\* A token is signed with a key that has been published.
KidWasPublished(c) == fetch[c].kid \in Kids => last[fetch[c].kid] >= 0
\* An answer is as old as it has been on its way, and has the key of the token.
AnswerIsNew(c) ==
  fetch[c].pc = "store" =>
    /\ \A k \in fetch[c].answer : clock - last[k] <= fetch[c].waited
    /\ fetch[c].kid \in published => fetch[c].kid \in fetch[c].answer
\* RotationIsSeen, of one callback.
KidIsKnown(c) ==
  fetch[c].pc = "use" /\ fetch[c].kid \in published => fetch[c].kid \in keys \/ c \in overrun
Served(c) == Returns(c) /\ KidWasPublished(c) /\ AnswerIsNew(c) /\ KidIsKnown(c)

KeyInv == KeyTypeOK /\ PublishedNow /\ KeysWereNew /\ \A c \in Callbacks : Served(c)

LEMMA KeysInitially == Google!Init => KeyInv
<1> SUFFICES ASSUME Google!Init PROVE KeyInv
  OBVIOUS
<1>1. Google!Quiet \in Fetch /\ Google!Quiet.pc = "idle" /\ Google!Quiet.kid = NoKid
  BY GoogleAssumptions DEF Google!Quiet, Fetch, Google!TickAssumption
<1>2. \A c \in Callbacks : fetch[c] = Google!Quiet
  BY DEF Google!Init
<1>3. KeyTypeOK
  BY <1>1, GoogleAssumptions DEF Google!Init, KeyTypeOK, Google!KidAssumption
<1>4. PublishedNow /\ KeysWereNew
  BY GoogleAssumptions DEF Google!Init, PublishedNow, KeysWereNew, Google!KidAssumption
<1>5. \A c \in Callbacks : Served(c)
  BY <1>1, <1>2, GoogleAssumptions DEF Served, Returns, KidWasPublished, AnswerIsNew, KidIsKnown, Google!KidAssumption
<1> QED BY <1>3, <1>4, <1>5 DEF KeyInv

\* Google publishes a key once, signs with one that is published and withdraws
\* only others.
LEMMA GoogleTurnsKeys ==
  ASSUME KeyInv, NEW k \in Kids, Google!Publish(k) \/ Google!SignWith(k) \/ Google!Withdraw(k)
  PROVE  KeyInv'
<1>1. UNCHANGED <<clock, keys, keys_at, fetch, overrun>>
  BY DEF Google!Publish, Google!SignWith, Google!Withdraw
<1>2. \/ last[k] < 0 /\ published' = published \cup {k} /\ last' = [last EXCEPT ![k] = clock] /\ signing' = signing
      \/ last' = last /\ published' \in SUBSET published /\ signing' \in published'
  BY DEF Google!Publish, Google!SignWith, Google!Withdraw, KeyInv, KeyTypeOK
<1>3. KeyTypeOK'
  BY <1>1, <1>2 DEF KeyInv, KeyTypeOK
<1>4. \A j \in Kids : last[j] \in Int /\ last'[j] \in Int /\ last'[j] >= last[j] /\ last'[j] <= clock
  BY <1>2 DEF KeyInv, KeyTypeOK, PublishedNow
<1>5. PublishedNow' /\ KeysWereNew'
  <2>1. PublishedNow'
    BY <1>1, <1>2 DEF KeyInv, KeyTypeOK, PublishedNow
  <2>2. KeysWereNew'
    BY <1>1, <1>4, GoogleAssumptions DEF KeyInv, KeyTypeOK, KeysWereNew, Google!TickAssumption
  <2> QED BY <2>1, <2>2
<1>6. ASSUME NEW c \in Callbacks PROVE Served(c)'
  <2>1. Served(c) /\ fetch[c] \in Fetch
    BY DEF KeyInv, KeyTypeOK
  <2>2. fetch[c].kid \in published' => fetch[c].kid \in published
    BY <1>2, <2>1 DEF Served, KidWasPublished, Fetch, KeyInv, KeyTypeOK
  <2>3. Returns(c)' /\ KidIsKnown(c)'
    BY <1>1, <2>1, <2>2 DEF Served, Returns, KidIsKnown
  <2>4. KidWasPublished(c)'
    BY <1>1, <1>4, <2>1 DEF Served, KidWasPublished
  <2>5. AnswerIsNew(c)'
    <3>1. \A j \in fetch[c].answer : j \in Kids /\ clock \in Int /\ fetch[c].waited \in Int
      BY <2>1, GoogleAssumptions DEF Fetch, Google!TickAssumption, KeyInv, KeyTypeOK
    <3> QED BY <1>1, <1>4, <2>1, <2>2, <3>1 DEF Served, AnswerIsNew
  <2> QED BY <2>3, <2>4, <2>5 DEF Served
<1> QED BY <1>3, <1>5, <1>6 DEF KeyInv

\* A step of one callback that leaves the cache and the keys of Google alone.
LEMMA OneCallback ==
  ASSUME KeyInv, NEW c \in Callbacks, NEW new \in Fetch, fetch' = [fetch EXCEPT ![c] = new],
         UNCHANGED <<published, signing, last, clock, keys, keys_at>>,
         \A d \in Callbacks \ {c} : d \in overrun => d \in overrun',
         Served(c)'
  PROVE  KeyInv'
<1>1. \A d \in Callbacks \ {c} : fetch'[d] = fetch[d]
  BY DEF KeyInv, KeyTypeOK
<1>2. \A d \in Callbacks \ {c} : Served(d)'
  BY <1>1 DEF KeyInv, Served, Returns, KidWasPublished, AnswerIsNew, KidIsKnown
<1> QED BY <1>2 DEF KeyInv, KeyTypeOK, PublishedNow, KeysWereNew

\* The steps of a callback, by what they make of it.
LEMMA CallbackSteps ==
  ASSUME KeyInv, NEW c \in Callbacks,
         \/ Google!Start(c) \/ Google!Metadata(c) \/ Google!Discover(c) \/ Google!Exchange(c) \/ Google!Look(c)
         \/ Google!Ask(c) \/ Google!Use(c) \/ Google!Fails(c)
  PROVE  KeyInv'
<1> DEFINE f == fetch[c]
<1>1. f \in Fetch /\ Served(c) /\ \A new : fetch' = [fetch EXCEPT ![c] = new] => fetch'[c] = new
  BY DEF KeyInv, KeyTypeOK
<1> DEFINE Becomes(new) ==
      /\ new \in Fetch /\ fetch' = [fetch EXCEPT ![c] = new]
      /\ UNCHANGED <<published, signing, last, clock, keys, keys_at>>
      /\ \A d \in Callbacks \ {c} : d \in overrun => d \in overrun'
<1>2. ASSUME NEW new, Becomes(new), fetch'[c] = new => Served(c)'
      PROVE  KeyInv'
  <2>1. fetch'[c] = new
    BY <1>1, <1>2
  <2> QED BY <1>2, <2>1, OneCallback
<1>3. CASE Google!Start(c)
  <2> DEFINE new == [f EXCEPT !.pc = "metadata", !.then = "exchange"]
  <2>1. new \in Fetch /\ new.pc = "metadata" /\ new.then = "exchange" /\ new.kid = f.kid
    BY <1>1 DEF Fetch
  <2>2. fetch' = [fetch EXCEPT ![c] = new]
    BY <1>3 DEF Google!Start, KeyInv, KeyTypeOK
  <2>3. fetch'[c] = new => Served(c)'
    BY <1>1, <1>3, <2>1 DEF Google!Start, Google!google, Served, Returns, KidWasPublished, AnswerIsNew, KidIsKnown
  <2> HIDE DEF new
  <2> QED BY <1>2, <1>3, <2>1, <2>2, <2>3 DEF Google!Start, Google!google
<1>4. CASE Google!Metadata(c) \/ Google!Discover(c)
  <2> DEFINE New(pc) == [f EXCEPT !.pc = pc]
  <2>1. PICK pc \in {"discover", "exchange", "ask"} : fetch' = [fetch EXCEPT ![c] = New(pc)] /\ (pc = "discover" => Returns(c) /\ f.pc = "metadata")
    <3>1. f.pc \in {"metadata", "discover"} /\ f.then \in {"exchange", "ask"}
      BY <1>1, <1>4 DEF Google!Metadata, Google!Discover, Served, Returns
    <3>2. fetch' = [fetch EXCEPT ![c] = New("discover")] \/ fetch' = [fetch EXCEPT ![c] = New(f.then)]
      BY <1>4 DEF Google!Metadata, Google!Discover, Google!Goto, KeyInv, KeyTypeOK
    <3>3. fetch' = [fetch EXCEPT ![c] = New("discover")] => f.pc = "metadata" \/ fetch' = [fetch EXCEPT ![c] = New(f.then)]
      BY <1>4 DEF Google!Metadata, Google!Discover, Google!Goto, KeyInv, KeyTypeOK
    <3> QED BY <1>1, <3>1, <3>2, <3>3 DEF Served
  <2> DEFINE new == New(pc)
  <2>2. new \in Fetch /\ new.pc = pc /\ new.then = f.then /\ new.kid = f.kid
    BY <1>1 DEF Fetch
  <2>3. UNCHANGED <<published, signing, last, clock, keys, keys_at, overrun>>
    BY <1>4 DEF Google!Metadata, Google!Discover, Google!google
  <2> HIDE DEF New
  <2>4. fetch'[c] = new => Served(c)'
    BY <1>1, <2>1, <2>2, <2>3 DEF Served, Returns, KidWasPublished, AnswerIsNew, KidIsKnown
  <2> QED BY <1>2, <2>1, <2>2, <2>3, <2>4
<1>5. CASE Google!Exchange(c)
  <2> DEFINE new == [f EXCEPT !.kid = signing, !.pc = "look"]
  <2>1. new \in Fetch /\ new.pc = "look" /\ new.kid = signing
    BY <1>1 DEF Fetch, KeyInv, KeyTypeOK
  <2>2. fetch' = [fetch EXCEPT ![c] = new]
    BY <1>5 DEF Google!Exchange, KeyInv, KeyTypeOK
  <2>3. last[signing] >= 0
    BY DEF KeyInv, KeyTypeOK, PublishedNow
  <2>4. fetch'[c] = new => Served(c)'
    BY <1>5, <2>1, <2>3 DEF Google!Exchange, Google!google, Served, Returns, KidWasPublished, AnswerIsNew, KidIsKnown
  <2> HIDE DEF new
  <2> QED BY <1>2, <1>5, <2>1, <2>2, <2>4 DEF Google!Exchange, Google!google
<1>6. CASE Google!Look(c)
  <2> DEFINE pc == IF Google!Unknown(f.kid) THEN "metadata" ELSE "use"
             new == [f EXCEPT !.pc = pc, !.then = "ask"]
  <2>1. new \in Fetch /\ new.pc = pc /\ new.then = "ask" /\ new.kid = f.kid
    BY <1>1 DEF Fetch
  <2>2. fetch' = [fetch EXCEPT ![c] = new]
    BY <1>6 DEF Google!Look, KeyInv, KeyTypeOK
  <2>3. pc = "metadata" \/ (pc = "use" /\ f.kid \in keys)
    BY DEF Google!Unknown
  <2> HIDE DEF pc, new
  <2>4. fetch'[c] = new => Served(c)'
    <3>1. UNCHANGED <<published, last, keys, overrun>>
      BY <1>6 DEF Google!Look, Google!google
    <3>2. new.pc # "use" => new.pc = "metadata"
      BY <2>1, <2>3
    <3>3. fetch'[c] = new => Returns(c)' /\ AnswerIsNew(c)'
      BY <2>1, <2>3 DEF Returns, AnswerIsNew
    <3>4. fetch'[c] = new => KidWasPublished(c)' /\ KidIsKnown(c)'
      BY <1>1, <2>1, <2>3, <3>1, <3>2 DEF Served, KidWasPublished, KidIsKnown
    <3> QED BY <3>3, <3>4 DEF Served
  <2> QED BY <1>2, <1>6, <2>1, <2>2, <2>4 DEF Google!Look, Google!google
<1>7. CASE Google!Ask(c)
  <2> DEFINE new == [f EXCEPT !.answer = published, !.pc = "store"]
  <2>1. new \in Fetch /\ new.pc = "store" /\ new.answer = published /\ new.kid = f.kid /\ new.waited = f.waited
    BY <1>1 DEF Fetch, KeyInv, KeyTypeOK
  <2>2. fetch' = [fetch EXCEPT ![c] = new]
    BY <1>7 DEF Google!Ask, KeyInv, KeyTypeOK
  <2>3. \A k \in published : clock - last[k] <= f.waited
    BY <1>1, GoogleAssumptions DEF Google!TickAssumption, Fetch, KeyInv, KeyTypeOK, PublishedNow
  <2> HIDE DEF new
  <2>4. fetch'[c] = new => Served(c)'
    BY <1>1, <1>7, <2>1, <2>3
      DEF Google!Ask, Google!google, Served, Returns, KidWasPublished, AnswerIsNew, KidIsKnown
  <2> QED BY <1>2, <1>7, <2>1, <2>2, <2>4 DEF Google!Ask, Google!google
<1>8. CASE Google!Use(c) \/ Google!Fails(c)
  <2>1. Google!Quiet \in Fetch /\ Google!Quiet.pc = "idle" /\ Google!Quiet.kid = NoKid
    BY GoogleAssumptions DEF Google!Quiet, Fetch, Google!TickAssumption
  <2>2. /\ fetch' = [fetch EXCEPT ![c] = Google!Quiet] /\ \A d \in Callbacks \ {c} : d \in overrun => d \in overrun'
        /\ UNCHANGED <<published, signing, last, clock, keys, keys_at>>
    BY <1>8 DEF Google!Use, Google!Fails, Google!google
  <2>3. fetch'[c] = Google!Quiet => Served(c)'
    BY <2>1, GoogleAssumptions
      DEF Served, Returns, KidWasPublished, AnswerIsNew, KidIsKnown, Google!KidAssumption
  <2> QED BY <1>2, <2>1, <2>2, <2>3
<1> QED BY <1>3, <1>4, <1>5, <1>6, <1>7, <1>8

\* The answer of one callback replaces what is cached.
LEMMA KeysStored ==
  ASSUME KeyInv, NEW c \in Callbacks, Google!Store(c)
  PROVE  KeyInv'
<1> DEFINE f == fetch[c]
           new == [f EXCEPT !.pc = "use"]
<1>1. f \in Fetch /\ Served(c)
  BY DEF KeyInv, KeyTypeOK
<1>2. /\ f.pc = "store" /\ keys' = f.answer /\ keys_at' = clock
      /\ overrun' = overrun \cup {d \in Callbacks \ {c} : fetch[d].pc = "use"}
      /\ UNCHANGED <<published, signing, last, clock>>
  BY DEF Google!Store, Google!Replaced, Google!google
<1>3. new \in Fetch /\ new.pc = "use" /\ new.kid = f.kid
  BY <1>1 DEF Fetch
<1>4. fetch' = [fetch EXCEPT ![c] = new]
  BY DEF Google!Store, Google!Goto, KeyInv, KeyTypeOK
<1> HIDE DEF new
<1>5. fetch'[c] = new /\ \A d \in Callbacks \ {c} : fetch'[d] = fetch[d]
  BY <1>4 DEF KeyInv, KeyTypeOK
<1>6. KeyTypeOK'
  <2>1. f.answer \in SUBSET Kids
    BY <1>1 DEF Fetch
  <2> QED BY <1>2, <1>3, <1>4, <2>1 DEF KeyInv, KeyTypeOK
<1>7. PublishedNow' /\ KeysWereNew'
  <2>1. \A k \in f.answer : clock - last[k] <= f.waited /\ last[k] \in Int
    BY <1>1, <1>2 DEF Served, AnswerIsNew, Fetch, KeyInv, KeyTypeOK
  <2>2. f.waited \in Nat /\ f.waited <= SlowTicks /\ SlowTicks \in Nat /\ clock \in Nat
    BY <1>1, GoogleAssumptions DEF Fetch, Google!TickAssumption, KeyInv, KeyTypeOK
  <2> QED BY <1>2, <2>1, <2>2 DEF KeyInv, PublishedNow, KeysWereNew
<1>8. Served(c)'
  BY <1>1, <1>2, <1>3, <1>5 DEF Served, Returns, KidWasPublished, AnswerIsNew, KidIsKnown
<1>9. ASSUME NEW d \in Callbacks \ {c} PROVE Served(d)'
  BY <1>2, <1>5 DEF KeyInv, Served, Returns, KidWasPublished, AnswerIsNew, KidIsKnown
<1> QED BY <1>6, <1>7, <1>8, <1>9 DEF KeyInv

LEMMA KeysAge ==
  ASSUME KeyInv, Google!Tick
  PROVE  KeyInv'
<1>1. /\ clock' = clock + 1 /\ UNCHANGED <<published, signing, keys, keys_at, overrun>>
      /\ \A c \in Callbacks : fetch[c].waited < SlowTicks /\ fetch[c].pc \notin {"look", "use"}
      /\ last' = [k \in Kids |-> IF k \in published THEN clock + 1 ELSE last[k]]
  BY DEF Google!Tick
<1>2. SlowTicks \in Nat /\ clock \in Nat /\ \A k \in Kids : last[k] \in Int /\ last[k] <= clock
  BY GoogleAssumptions DEF Google!TickAssumption, KeyInv, KeyTypeOK, PublishedNow
<1>3. ASSUME NEW c \in Callbacks
      PROVE  /\ fetch'[c] \in Fetch
             /\ fetch'[c].pc = fetch[c].pc /\ fetch'[c].then = fetch[c].then /\ fetch'[c].kid = fetch[c].kid
             /\ fetch'[c].answer = fetch[c].answer
             /\ fetch[c].pc = "store" => fetch'[c].waited = fetch[c].waited + 1
  <2> DEFINE later == [fetch[c] EXCEPT !.waited = @ + 1]
  <2>1. fetch[c] \in Fetch /\ fetch[c].waited < SlowTicks
    BY <1>1 DEF KeyInv, KeyTypeOK
  <2>2. /\ later \in Fetch /\ later.pc = fetch[c].pc /\ later.then = fetch[c].then /\ later.kid = fetch[c].kid
        /\ later.answer = fetch[c].answer /\ later.waited = fetch[c].waited + 1
    BY <1>2, <2>1 DEF Fetch
  <2>3. fetch'[c] = IF fetch[c].pc = "store" THEN later ELSE fetch[c]
    BY DEF Google!Tick
  <2> HIDE DEF later
  <2> QED BY <2>1, <2>2, <2>3
<1>4. KeyTypeOK'
  <2>1. fetch' \in [Callbacks -> Fetch]
    <3>1. fetch' = [c \in Callbacks |-> fetch'[c]]
      BY DEF Google!Tick
    <3> QED BY <1>3, <3>1
  <2> QED BY <1>1, <1>2, <2>1 DEF KeyInv, KeyTypeOK
<1>5. PublishedNow' /\ KeysWereNew'
  <2>1. PublishedNow'
    BY <1>1, <1>2 DEF KeyInv, KeyTypeOK, PublishedNow
  <2>2. KeysWereNew'
    BY <1>1, <1>2 DEF KeyInv, KeyTypeOK, KeysWereNew
  <2> QED BY <2>1, <2>2
<1>6. ASSUME NEW c \in Callbacks PROVE Served(c)'
  <2>1. Served(c) /\ fetch[c] \in Fetch
    BY DEF KeyInv, KeyTypeOK
  <2>2. Returns(c)' /\ KidIsKnown(c)'
    BY <1>1, <1>3, <2>1 DEF Served, Returns, KidIsKnown
  <2>3. KidWasPublished(c)'
    BY <1>1, <1>2, <1>3, <2>1 DEF Served, KidWasPublished
  <2>4. AnswerIsNew(c)'
    <3>1. fetch[c].waited \in Nat /\ fetch[c].answer \in SUBSET Kids
      BY <2>1 DEF Fetch
    <3> QED BY <1>1, <1>2, <1>3, <2>1, <3>1 DEF Served, AnswerIsNew
  <2> QED BY <2>2, <2>3, <2>4 DEF Served
<1> QED BY <1>4, <1>5, <1>6 DEF KeyInv

\* No key is trusted for longer than the cache and one answer last after Google
\* has withdrawn it, and no token refused for want of a key that Google publishes
\* unless two callbacks fetched the keys together (_load_keys, _signing_key).
THEOREM KeysAreGoogles == Spec => []KeysFollowGoogle
<1>1. KeyInv /\ [Google!Next]_(Google!keyVars) => KeyInv'
  <2>1. KeyInv /\ UNCHANGED Google!keyVars => KeyInv'
    BY DEF Google!keyVars, KeyInv, KeyTypeOK, PublishedNow, KeysWereNew, Served, Returns, KidWasPublished, AnswerIsNew,
       KidIsKnown
  <2> QED BY <2>1, GoogleTurnsKeys, CallbackSteps, KeysStored, KeysAge DEF Google!Next
<1>2. Google!Spec => []KeyInv
  BY <1>1, KeysInitially, PTL DEF Google!Spec
<1>3. KeyInv => KeysFollowGoogle
  <2> SUFFICES ASSUME KeyInv PROVE KeysFollowGoogle
    OBVIOUS
  <2>1. Google!KeysFade
    <3>1. \A k \in keys : last[k] \in Int
      BY DEF KeyInv, KeyTypeOK
    <3> QED BY <3>1, GoogleAssumptions
      DEF KeyInv, KeyTypeOK, KeysWereNew, Google!KeysFade, Google!TickAssumption
  <2>2. Google!RotationIsSeen
    BY DEF KeyInv, Served, KidIsKnown, Google!RotationIsSeen
  <2> QED BY <2>1, <2>2 DEF KeysFollowGoogle, Google!KeysFollowGoogle
<1> QED BY <1>2, <1>3, GoogleRuns, PTL

------------------------------------------------------------------------------
(* SignIn.                                                                   *)

GoogleAccount == [email : Emails, verified : BOOLEAN]
User == [email : Emails, active : BOOLEAN, org : BOOLEAN]
Claimant == Accounts!Claims \cup [subject : {NoAccount}, email : Emails, verified : BOOLEAN]
SignInRequest ==
  [pc : {"idle", "identity", "email", "create", "org", "link", "again"}, who : Claimant \cup {Asked}, user : Nat,
   retried : BOOLEAN]
Tab == [flow : Nat, answer : Accounts!Claims \cup {Asked, Cancelled}]
SignInTypeOK ==
  /\ google \in [Subjects -> GoogleAccount]
  /\ users \in Seq(User) /\ identities \in [Subjects -> 0 .. Len(users)]
  /\ tabs \in [Browsers -> SUBSET Tab] /\ started \in Nat
  /\ callback \in [Browsers -> SignInRequest]

\* A verified answer is one that the provider has given.
TabIsVouched(tab) ==
  tab.answer \in Accounts!Claims /\ tab.answer.verified => <<tab.answer.subject, tab.answer.email>> \in vouched
TabsAreVouched == \A b \in Browsers : \A tab \in tabs[b] : TabIsVouched(tab)

\* What a request knows of who it is for.
Answered(b) == callback[b].pc # "idle" => callback[b].who \in Claimant
\* Past the first look at the claims, they are vouched for.
IsVouched(b) ==
  LET who == callback[b].who
  IN callback[b].pc # "idle" /\ who.subject # NoAccount /\ (callback[b].pc = "identity" => who.verified) =>
       <<who.subject, who.email>> \in vouched
\* A registration creates an account and no more.
Registers(b) ==
  callback[b].pc # "idle" /\ callback[b].who.subject = NoAccount =>
    callback[b].pc \in {"create", "org"} /\ callback[b].retried
\* The user that is to be linked has the address of the claims.
HasAddress(b) ==
  callback[b].pc \in {"link", "org"} =>
    callback[b].user \in 1 .. Len(users) /\ users[callback[b].user].email = callback[b].who.email
RequestOK(b) == Answered(b) /\ IsVouched(b) /\ Registers(b) /\ HasAddress(b)

\* Who has signed in and has not been unlinked is linked to that user.
SignedInIsLinked ==
  \A s \in Subjects \ unlinked : \A u : <<s, u>> \in signins => u # 0 /\ identities[s] = u

SignInv ==
  SignInTypeOK /\ TabsAreVouched /\ (\A b \in Browsers : RequestOK(b)) /\ Accounts!VouchedFor /\ SignedInIsLinked

LEMMA IdleRequest ==
  Accounts!NoRequest \in SignInRequest /\ Accounts!NoRequest.pc = "idle"
BY DEF Accounts!NoRequest, SignInRequest

LEMMA SignInInitially == Accounts!Init => SignInv
<1> SUFFICES ASSUME Accounts!Init PROVE SignInv
  OBVIOUS
<1>1. \A b \in Browsers : callback[b] = Accounts!NoRequest /\ tabs[b] = {}
  BY DEF Accounts!Init
<1>2. SignInTypeOK
  BY IdleRequest, AccountAssumptions
    DEF Accounts!Init, SignInTypeOK, Accounts!SubjectAssumption, GoogleAccount
<1>3. \A b \in Browsers : RequestOK(b)
  BY <1>1, IdleRequest DEF RequestOK, Answered, IsVouched, Registers, HasAddress
<1>4. TabsAreVouched /\ Accounts!VouchedFor /\ SignedInIsLinked
  BY <1>1 DEF Accounts!Init, TabsAreVouched, Accounts!VouchedFor, SignedInIsLinked
<1> QED BY <1>2, <1>3, <1>4 DEF SignInv

\* Users come, and keep their addresses.
UsersStay ==
  /\ users' \in Seq(User) /\ Len(users') >= Len(users)
  /\ \A u \in 1 .. Len(users) : users'[u].email = users[u].email

\* A step that adds no link and no sign-in.
LEMMA LinksStay ==
  ASSUME SignInv, UsersStay, UNCHANGED <<identities, signins, unlinked>>, vouched \subseteq vouched'
  PROVE  identities' \in [Subjects -> 0 .. Len(users')] /\ Accounts!VouchedFor' /\ SignedInIsLinked'
<1>1. Len(users) \in Nat /\ Len(users') \in Nat
  BY DEF SignInv, SignInTypeOK, UsersStay
<1>2. identities' \in [Subjects -> 0 .. Len(users')]
  BY <1>1 DEF SignInv, SignInTypeOK, UsersStay
<1>3. \A s \in Subjects : identities[s] # 0 => identities[s] \in 1 .. Len(users)
  BY <1>1 DEF SignInv, SignInTypeOK
<1>4. Accounts!VouchedFor'
  BY <1>3 DEF SignInv, UsersStay, Accounts!VouchedFor
<1>5. SignedInIsLinked'
  BY DEF SignInv, SignedInIsLinked
<1> QED BY <1>2, <1>4, <1>5

\* What one request knows, the others do not change.
LEMMA RequestStays ==
  ASSUME SignInv, UsersStay, vouched \subseteq vouched', NEW b \in Browsers, callback'[b] = callback[b]
  PROVE  RequestOK(b)'
<1>1. RequestOK(b) /\ Len(users) \in Nat /\ Len(users') \in Nat
  BY DEF SignInv, SignInTypeOK, UsersStay
<1>2. Answered(b)' /\ IsVouched(b)' /\ Registers(b)'
  BY <1>1 DEF RequestOK, Answered, IsVouched, Registers
<1>3. HasAddress(b)'
  BY <1>1 DEF RequestOK, HasAddress, UsersStay
<1> QED BY <1>2, <1>3 DEF RequestOK

\* A step of one request.
LEMMA OneRequest ==
  ASSUME SignInv, UsersStay, NEW b \in Browsers, NEW new \in SignInRequest,
         callback' = [callback EXCEPT ![b] = new],
         UNCHANGED <<google, vouched, tabs, started>>,
         identities' \in [Subjects -> 0 .. Len(users')], Accounts!VouchedFor', SignedInIsLinked',
         RequestOK(b)'
  PROVE  SignInv'
<1>1. SignInTypeOK'
  BY DEF SignInv, SignInTypeOK, UsersStay
<1>2. TabsAreVouched'
  BY DEF SignInv, TabsAreVouched, TabIsVouched
<1>3. \A c \in Browsers \ {b} : RequestOK(c)'
  <2>1. \A c \in Browsers \ {b} : callback'[c] = callback[c]
    BY DEF SignInv, SignInTypeOK
  <2> QED BY <2>1, RequestStays
<1> QED BY <1>1, <1>2, <1>3 DEF SignInv

\* The request that ends knows nothing any more; if it signs in, the user is the
\* one that the account is linked to.
LEMMA RequestEnds ==
  ASSUME SignInv, UsersStay, NEW b \in Browsers, callback' = [callback EXCEPT ![b] = Accounts!NoRequest],
         UNCHANGED <<google, vouched, tabs, started, unlinked, identities>>,
         \/ signins' = signins
         \/ \E u : /\ signins' = signins \cup {<<callback[b].who.subject, u>>}
                   /\ u # 0 /\ identities[callback[b].who.subject] = u
  PROVE  SignInv'
<1>1. identities' \in [Subjects -> 0 .. Len(users')] /\ Accounts!VouchedFor'
  <2>1. Len(users) \in Nat /\ Len(users') \in Nat
    BY DEF SignInv, SignInTypeOK, UsersStay
  <2>2. \A s \in Subjects : identities[s] # 0 => identities[s] \in 1 .. Len(users)
    BY <2>1 DEF SignInv, SignInTypeOK
  <2> QED BY <2>1, <2>2 DEF SignInv, SignInTypeOK, UsersStay, Accounts!VouchedFor
<1>2. SignedInIsLinked'
  BY DEF SignInv, SignedInIsLinked
<1>3. callback'[b] = Accounts!NoRequest
  BY DEF SignInv, SignInTypeOK
<1>4. RequestOK(b)'
  BY <1>3, IdleRequest DEF RequestOK, Answered, IsVouched, Registers, HasAddress
<1> QED BY <1>1, <1>2, <1>4, IdleRequest, OneRequest

\* The request goes on and changes nothing but itself.
LEMMA RequestGoesOn ==
  ASSUME SignInv, NEW b \in Browsers, NEW new \in SignInRequest, callback' = [callback EXCEPT ![b] = new],
         UNCHANGED <<google, vouched, tabs, started, unlinked, identities, users, signins>>,
         callback'[b] = new => RequestOK(b)'
  PROVE  SignInv'
<1>1. UsersStay
  BY DEF SignInv, SignInTypeOK, UsersStay
<1>2. callback'[b] = new
  BY DEF SignInv, SignInTypeOK
<1> QED BY <1>1, <1>2, LinksStay, OneRequest

\* What happens at the provider, and the flows that begin.
LEMMA ProviderSteps ==
  ASSUME SignInv,
         UNCHANGED <<callback, users, identities, signins, unlinked>>,
         vouched \subseteq vouched', google' \in [Subjects -> GoogleAccount], started' \in Nat,
         tabs' \in [Browsers -> SUBSET Tab], TabsAreVouched'
  PROVE  SignInv'
<1>1. UsersStay
  BY DEF SignInv, SignInTypeOK, UsersStay
<1>2. \A b \in Browsers : RequestOK(b)'
  BY <1>1, RequestStays
<1> QED BY <1>1, <1>2, LinksStay DEF SignInv, SignInTypeOK

LEMMA FlowStarts ==
  ASSUME SignInv, NEW b \in Browsers, Accounts!Start(b)
  PROVE  SignInv'
<1> DEFINE tab == [flow |-> started', answer |-> Asked]
<1>1. started' = started + 1 /\ started' \in Nat /\ tabs' = [tabs EXCEPT ![b] = tabs[b] \cup {tab}]
      /\ UNCHANGED <<google, vouched, callback, users, identities, signins, unlinked>>
  BY DEF Accounts!Start, Accounts!providerVars, SignInv, SignInTypeOK
<1>2. tab \in Tab /\ tab.answer \notin Accounts!Claims
  BY <1>1, AccountAssumptions DEF Tab, Accounts!SubjectAssumption
<1> HIDE DEF tab
<1>3. tabs' \in [Browsers -> SUBSET Tab]
  BY <1>1, <1>2 DEF SignInv, SignInTypeOK
<1>4. TabsAreVouched'
  BY <1>1, <1>2 DEF SignInv, SignInTypeOK, TabsAreVouched, TabIsVouched
<1> QED BY <1>1, <1>3, <1>4, ProviderSteps DEF SignInv, SignInTypeOK

LEMMA ProviderAnswers ==
  ASSUME SignInv, NEW b \in Browsers, NEW tab \in tabs[b],
         Accounts!Cancel(b, tab) \/ \E s \in Subjects : Accounts!Answer(b, tab, s)
  PROVE  SignInv'
<1>1. PICK answer : /\ Accounts!Redirected(b, tab, answer) /\ vouched \subseteq vouched'
                    /\ \/ answer = Cancelled
                       \/ /\ answer \in Accounts!Claims
                          /\ answer.verified => <<answer.subject, answer.email>> \in vouched'
  <2>1. CASE Accounts!Cancel(b, tab)
    BY <2>1 DEF Accounts!Cancel
  <2>2. ASSUME NEW s \in Subjects, Accounts!Answer(b, tab, s)
        PROVE  LET answer == [subject |-> s, email |-> google[s].email, verified |-> google[s].verified]
               IN /\ Accounts!Redirected(b, tab, answer) /\ vouched \subseteq vouched' /\ answer \in Accounts!Claims
                  /\ answer.verified => <<answer.subject, answer.email>> \in vouched'
    <3>1. google[s] \in GoogleAccount
      BY DEF SignInv, SignInTypeOK
    <3> QED BY <2>2, <3>1 DEF Accounts!Answer, Accounts!Claims, GoogleAccount
  <2> QED BY <2>1, <2>2
<1> DEFINE new == [tab EXCEPT !.answer = answer]
<1>2. tabs' = [tabs EXCEPT ![b] = (tabs[b] \ {tab}) \cup {new}]
      /\ UNCHANGED <<google, callback, users, identities, signins, unlinked, started>>
  BY <1>1 DEF Accounts!Redirected
<1>3. tab \in Tab
  BY DEF SignInv, SignInTypeOK
<1>4. new \in Tab /\ new.answer = answer
  BY <1>1, <1>3 DEF Tab
<1> HIDE DEF new
<1>5. tabs' \in [Browsers -> SUBSET Tab]
  BY <1>2, <1>4 DEF SignInv, SignInTypeOK
<1>6. TabIsVouched(new)'
  BY <1>1, <1>4, AccountAssumptions DEF TabIsVouched, Accounts!SubjectAssumption
<1>7. TabsAreVouched'
  <2> SUFFICES ASSUME NEW c \in Browsers, NEW t \in tabs'[c] PROVE TabIsVouched(t)'
    BY DEF TabsAreVouched
  <2>1. t = new \/ t \in tabs[c]
    BY <1>2 DEF SignInv, SignInTypeOK
  <2>2. t \in tabs[c] => TabIsVouched(t)
    BY DEF SignInv, TabsAreVouched
  <2> QED BY <1>1, <1>6, <2>1, <2>2 DEF TabIsVouched
<1> QED BY <1>1, <1>2, <1>5, <1>7, ProviderSteps DEF SignInv, SignInTypeOK

LEMMA AnswerComesBack ==
  ASSUME SignInv, NEW b \in Browsers, NEW tab \in tabs[b], Accounts!Callback(b, tab)
  PROVE  SignInv'
<1>1. /\ tabs' = [tabs EXCEPT ![b] = tabs[b] \ {tab}] /\ tab.answer # Asked
      /\ UNCHANGED <<google, vouched, users, identities, signins, unlinked, started>>
  BY DEF Accounts!Callback, Accounts!providerVars
<1>2. tabs' \in [Browsers -> SUBSET Tab] /\ TabsAreVouched'
  BY <1>1 DEF SignInv, SignInTypeOK, TabsAreVouched, TabIsVouched
<1>3. CASE callback' = callback
  BY <1>1, <1>2, <1>3, ProviderSteps DEF SignInv, SignInTypeOK
<1>4. CASE tab.answer # Cancelled
           /\ callback' = [callback EXCEPT ![b] = [Accounts!NoRequest EXCEPT !.pc = "identity", !.who = tab.answer]]
  <2> DEFINE new == [Accounts!NoRequest EXCEPT !.pc = "identity", !.who = tab.answer]
  <2>1. tab \in Tab /\ TabIsVouched(tab)
    BY DEF SignInv, SignInTypeOK, TabsAreVouched
  <2>2. tab.answer \in Accounts!Claims
    BY <1>1, <1>4, <2>1 DEF Tab
  <2>3. new \in SignInRequest /\ new.pc = "identity" /\ new.who = tab.answer
    BY <2>2 DEF Accounts!NoRequest, SignInRequest, Claimant
  <2> HIDE DEF new
  <2>4. callback'[b] = new /\ callback' \in [Browsers -> SignInRequest] /\ \A c \in Browsers \ {b} : callback'[c] = callback[c]
    BY <1>4, <2>3 DEF SignInv, SignInTypeOK, new
  <2>5. UsersStay
    BY <1>1 DEF SignInv, SignInTypeOK, UsersStay
  <2>6. RequestOK(b)'
    <3>1. tab.answer.subject \in Subjects /\ tab.answer.subject # NoAccount
      BY <2>2, AccountAssumptions DEF Accounts!Claims, Accounts!SubjectAssumption
    <3> QED BY <1>1, <2>1, <2>2, <2>3, <2>4, <3>1
      DEF RequestOK, Answered, IsVouched, Registers, HasAddress, TabIsVouched, Claimant
  <2>7. \A c \in Browsers \ {b} : RequestOK(c)'
    BY <1>1, <2>4, <2>5, RequestStays
  <2> QED BY <1>1, <1>2, <2>4, <2>5, <2>6, <2>7, LinksStay DEF SignInv, SignInTypeOK
<1> QED BY <1>3, <1>4 DEF Accounts!Callback

LEMMA UserHasAddress ==
  ASSUME SignInv, NEW email, Accounts!UserOf(email) # 0
  PROVE  Accounts!UserOf(email) \in 1 .. Len(users) /\ users[Accounts!UserOf(email)].email = email
<1>1. DOMAIN users = 1 .. Len(users)
  BY DEF SignInv, SignInTypeOK
<1> QED BY <1>1 DEF Accounts!UserOf

LEMMA IdentityFound ==
  ASSUME SignInv, NEW b \in Browsers, Accounts!FindIdentity(b)
  PROVE  SignInv'
<1> DEFINE r == callback[b]
           who == r.who
<1>1. /\ r.pc = "identity" /\ r \in SignInRequest /\ RequestOK(b)
      /\ UNCHANGED <<google, vouched, tabs, started, unlinked, identities, users>>
  BY DEF Accounts!FindIdentity, Accounts!providerVars, SignInv, SignInTypeOK
<1>2. UsersStay
  BY <1>1 DEF SignInv, SignInTypeOK, UsersStay
<1>3. CASE Accounts!Ends(b) /\ UNCHANGED signins
  BY <1>1, <1>2, <1>3, RequestEnds DEF Accounts!Ends, Accounts!Goes
<1>4. CASE Accounts!LinkOf(who) # 0 /\ Accounts!SignedIn(b, Accounts!LinkOf(who))
  BY <1>1, <1>2, <1>4, RequestEnds DEF Accounts!SignedIn, Accounts!Ends, Accounts!Goes, Accounts!LinkOf
<1>5. CASE who.verified /\ callback' = [callback EXCEPT ![b] = [r EXCEPT !.pc = "email"]] /\ UNCHANGED signins
  <2> DEFINE new == [r EXCEPT !.pc = "email"]
  <2>1. new \in SignInRequest /\ new.pc = "email" /\ new.who = who
    BY <1>1 DEF SignInRequest
  <2> HIDE DEF new
  <2>2. who.subject # NoAccount
    BY <1>1 DEF RequestOK, Registers
  <2>3. callback'[b] = new => RequestOK(b)'
    BY <1>1, <1>5, <2>1, <2>2 DEF RequestOK, Answered, IsVouched, Registers, HasAddress
  <2> QED BY <1>1, <1>5, <2>1, <2>3, RequestGoesOn DEF new
<1> QED BY <1>3, <1>4, <1>5 DEF Accounts!FindIdentity, Accounts!Goes, Accounts!Trusted

LEMMA UserFound ==
  ASSUME SignInv, NEW b \in Browsers, Accounts!FindUser(b)
  PROVE  SignInv'
<1> DEFINE r == callback[b]
           u == Accounts!UserOf(r.who.email)
<1>1. /\ r.pc = "email" /\ r \in SignInRequest /\ RequestOK(b)
      /\ UNCHANGED <<google, vouched, tabs, started, unlinked, identities, users, signins>>
  BY DEF Accounts!FindUser, Accounts!providerVars, SignInv, SignInTypeOK
<1>2. r.who.subject # NoAccount
  BY <1>1 DEF RequestOK, Registers
<1>3. CASE Accounts!Ends(b)
  <2>1. UsersStay
    BY <1>1 DEF SignInv, SignInTypeOK, UsersStay
  <2> QED BY <1>1, <1>3, <2>1, RequestEnds DEF Accounts!Ends, Accounts!Goes
<1>4. CASE callback' = [callback EXCEPT ![b] = [r EXCEPT !.pc = "create"]]
  <2> DEFINE new == [r EXCEPT !.pc = "create"]
  <2>1. new \in SignInRequest /\ new.pc = "create" /\ new.who = r.who
    BY <1>1 DEF SignInRequest
  <2> HIDE DEF new
  <2>2. callback'[b] = new => RequestOK(b)'
    BY <1>1, <1>2, <2>1 DEF RequestOK, Answered, IsVouched, Registers, HasAddress
  <2> QED BY <1>1, <1>4, <2>1, <2>2, RequestGoesOn DEF new
<1>5. CASE u # 0 /\ callback' = [callback EXCEPT ![b] = [r EXCEPT !.pc = "link", !.user = u]]
  <2> DEFINE new == [r EXCEPT !.pc = "link", !.user = u]
  <2>1. u \in 1 .. Len(users) /\ users[u].email = r.who.email
    BY <1>5, UserHasAddress
  <2> HIDE DEF u
  <2>2. new \in SignInRequest /\ new.pc = "link" /\ new.who = r.who /\ new.user = u
    <3>1. u \in Nat
      BY <2>1
    <3> QED BY <1>1, <3>1 DEF SignInRequest
  <2> HIDE DEF new
  <2>3. callback'[b] = new => RequestOK(b)'
    BY <1>1, <1>2, <2>1, <2>2 DEF RequestOK, Answered, IsVouched, Registers, HasAddress
  <2> QED BY <1>1, <1>5, <2>2, <2>3, RequestGoesOn DEF new
<1> QED BY <1>3, <1>4, <1>5 DEF Accounts!FindUser, Accounts!Goes

LEMMA RegistrationBegins ==
  ASSUME SignInv, NEW b \in Browsers, NEW email \in Emails, Accounts!Register(b, email)
  PROVE  SignInv'
<1> DEFINE who == [subject |-> NoAccount, email |-> email, verified |-> FALSE]
           new == [pc |-> "create", who |-> who, user |-> 0, retried |-> TRUE]
<1>1. /\ callback' = [callback EXCEPT ![b] = new]
      /\ UNCHANGED <<google, vouched, tabs, started, unlinked, identities, users, signins>>
  BY DEF Accounts!Register, Accounts!Goes, Accounts!providerVars
<1>2. who \in Claimant /\ who.subject = NoAccount
  BY DEF Claimant
<1> HIDE DEF who
<1>3. new \in SignInRequest /\ new.pc = "create" /\ new.who = who /\ new.retried = TRUE
  BY <1>2 DEF SignInRequest
<1> HIDE DEF new
<1>4. callback'[b] = new => RequestOK(b)'
  BY <1>2, <1>3 DEF RequestOK, Answered, IsVouched, Registers, HasAddress
<1> QED BY <1>1, <1>3, <1>4, RequestGoesOn

LEMMA UserCreated ==
  ASSUME SignInv, NEW b \in Browsers, Accounts!CreateUser(b)
  PROVE  SignInv'
<1> DEFINE r == callback[b]
           user == [email |-> r.who.email, active |-> TRUE, org |-> FALSE]
<1>1. /\ r.pc = "create" /\ r \in SignInRequest /\ RequestOK(b)
      /\ UNCHANGED <<google, vouched, tabs, started, unlinked, identities, signins>>
  BY DEF Accounts!CreateUser, Accounts!providerVars, SignInv, SignInTypeOK
<1>2. CASE users' = users /\ Accounts!Ends(b)
  <2>1. UsersStay
    BY <1>2 DEF SignInv, SignInTypeOK, UsersStay
  <2> QED BY <1>1, <1>2, <2>1, RequestEnds DEF Accounts!Ends, Accounts!Goes
<1>3. CASE ~r.retried /\ users' = users /\ callback' = [callback EXCEPT ![b] = [r EXCEPT !.pc = "identity", !.retried = TRUE]]
  <2> DEFINE new == [r EXCEPT !.pc = "identity", !.retried = TRUE]
  <2>1. new \in SignInRequest /\ new.pc = "identity" /\ new.who = r.who
    BY <1>1 DEF SignInRequest
  <2> HIDE DEF new
  <2>2. callback'[b] = new => RequestOK(b)'
    BY <1>1, <1>3, <2>1 DEF RequestOK, Answered, IsVouched, Registers, HasAddress
  <2> QED BY <1>1, <1>3, <2>1, <2>2, RequestGoesOn DEF new
<1>4. CASE users' = Append(users, user) /\ callback' = [callback EXCEPT ![b] = [r EXCEPT !.pc = "org", !.user = Len(users) + 1]]
  <2> DEFINE new == [r EXCEPT !.pc = "org", !.user = Len(users) + 1]
  <2>1. user \in User
    <3>1. r.who.email \in Emails
      BY <1>1 DEF RequestOK, Answered, Claimant, Accounts!Claims
    <3> QED BY <3>1 DEF User
  <2>2. user.email = r.who.email
    OBVIOUS
  <2> HIDE DEF user
  <2>3. users \in Seq(User) /\ Len(users) \in Nat
    BY DEF SignInv, SignInTypeOK
  <2>4. /\ users' \in Seq(User) /\ Len(users') = Len(users) + 1 /\ users'[Len(users) + 1] = user
        /\ \A u \in 1 .. Len(users) : users'[u] = users[u]
    BY <1>4, <2>1, <2>3
  <2>5. UsersStay
    BY <2>3, <2>4 DEF UsersStay
  <2>6. new \in SignInRequest /\ new.pc = "org" /\ new.who = r.who /\ new.user = Len(users) + 1 /\ new.retried = r.retried
    <3> DEFINE next == Len(users) + 1
    <3>1. next \in Nat
      BY <2>3
    <3> HIDE DEF next
    <3>2. [r EXCEPT !.pc = "org", !.user = next] \in SignInRequest
      BY <1>1, <3>1 DEF SignInRequest
    <3>3. /\ [r EXCEPT !.pc = "org", !.user = next].pc = "org" /\ [r EXCEPT !.pc = "org", !.user = next].who = r.who
          /\ [r EXCEPT !.pc = "org", !.user = next].user = next /\ [r EXCEPT !.pc = "org", !.user = next].retried = r.retried
      BY <1>1 DEF SignInRequest
    <3> QED BY <3>2, <3>3 DEF next
  <2> HIDE DEF new
  <2>7. callback'[b] = new
    BY <1>4 DEF new, SignInv, SignInTypeOK
  <2>8. RequestOK(b)'
    <3>1. Answered(b)' /\ IsVouched(b)' /\ Registers(b)'
      BY <1>1, <2>6, <2>7 DEF RequestOK, Answered, IsVouched, Registers
    <3>2. HasAddress(b)'
      BY <2>2, <2>3, <2>4, <2>6, <2>7 DEF HasAddress
    <3> QED BY <3>1, <3>2 DEF RequestOK
  <2> QED BY <1>1, <1>4, <2>5, <2>6, <2>8, LinksStay, OneRequest DEF new
<1> QED BY <1>2, <1>3, <1>4 DEF Accounts!CreateUser, Accounts!Goes

\* A row of users changes, not its address.
LEMMA UserChanges ==
  ASSUME SignInv, NEW u \in 1 .. Len(users), NEW user \in User, user.email = users[u].email,
         users' = [users EXCEPT ![u] = user]
  PROVE  UsersStay
BY DEF SignInv, SignInTypeOK, UsersStay

LEMMA OrgCreated ==
  ASSUME SignInv, NEW b \in Browsers, Accounts!CreateOrg(b)
  PROVE  SignInv'
<1> DEFINE r == callback[b]
           user == [users[r.user] EXCEPT !.org = TRUE]
<1>1. /\ r.pc = "org" /\ r \in SignInRequest /\ RequestOK(b)
      /\ UNCHANGED <<google, vouched, tabs, started, unlinked, identities, signins>>
  BY DEF Accounts!CreateOrg, Accounts!providerVars, SignInv, SignInTypeOK
<1>2. r.user \in 1 .. Len(users) /\ users[r.user].email = r.who.email
  BY <1>1 DEF RequestOK, HasAddress
<1>3. users[r.user] \in User
  BY <1>2 DEF SignInv, SignInTypeOK
<1>4. user \in User /\ user.email = users[r.user].email
  BY <1>3 DEF User
<1>5. users' = [users EXCEPT ![r.user] = user]
  BY DEF Accounts!CreateOrg
<1> HIDE DEF user
<1>6. UsersStay
  BY <1>2, <1>4, <1>5, UserChanges
<1>7. CASE Accounts!Ends(b)
  BY <1>1, <1>6, <1>7, RequestEnds DEF Accounts!Ends, Accounts!Goes
<1>8. CASE r.who.subject # NoAccount /\ callback' = [callback EXCEPT ![b] = [r EXCEPT !.pc = "link"]]
  <2> DEFINE new == [r EXCEPT !.pc = "link"]
  <2>1. new \in SignInRequest /\ new.pc = "link" /\ new.who = r.who /\ new.user = r.user
    BY <1>1 DEF SignInRequest
  <2> HIDE DEF new
  <2>2. callback'[b] = new
    BY <1>8 DEF new, SignInv, SignInTypeOK
  <2>3. RequestOK(b)'
    <3>1. Answered(b)' /\ IsVouched(b)' /\ Registers(b)'
      BY <1>1, <1>8, <2>1, <2>2 DEF RequestOK, Answered, IsVouched, Registers
    <3>2. HasAddress(b)'
      <4>1. Len(users) \in Nat /\ Len(users') \in Nat
        BY <1>6 DEF UsersStay, SignInv, SignInTypeOK
      <4> QED BY <1>2, <1>6, <2>1, <2>2, <4>1 DEF HasAddress, UsersStay
    <3> QED BY <3>1, <3>2 DEF RequestOK
  <2> QED BY <1>1, <1>6, <1>8, <2>1, <2>3, LinksStay, OneRequest DEF new
<1> QED BY <1>7, <1>8 DEF Accounts!CreateOrg, Accounts!Goes

LEMMA IdentityLinked ==
  ASSUME SignInv, NEW b \in Browsers, Accounts!Link(b)
  PROVE  SignInv'
<1> DEFINE r == callback[b]
           s == r.who.subject
           u == r.user
<1>1. /\ r.pc = "link" /\ r \in SignInRequest /\ RequestOK(b)
      /\ UNCHANGED <<google, vouched, tabs, started, unlinked, users>>
  BY DEF Accounts!Link, Accounts!providerVars, SignInv, SignInTypeOK
<1>2. /\ s # NoAccount /\ s \in Subjects /\ <<s, r.who.email>> \in vouched
      /\ u \in 1 .. Len(users) /\ users[u].email = r.who.email
  BY <1>1, AccountAssumptions
    DEF RequestOK, Answered, IsVouched, Registers, HasAddress, Claimant, Accounts!Claims, Accounts!SubjectAssumption
<1>3. UsersStay
  BY <1>1 DEF SignInv, SignInTypeOK, UsersStay
<1>4. CASE callback' = [callback EXCEPT ![b] = [r EXCEPT !.pc = "again"]] /\ UNCHANGED <<identities, signins>>
  <2> DEFINE new == [r EXCEPT !.pc = "again"]
  <2>1. new \in SignInRequest /\ new.pc = "again" /\ new.who = r.who
    BY <1>1 DEF SignInRequest
  <2> HIDE DEF new
  <2>2. callback'[b] = new => RequestOK(b)'
    BY <1>1, <1>2, <1>4, <2>1 DEF RequestOK, Answered, IsVouched, Registers, HasAddress
  <2> QED BY <1>1, <1>4, <2>1, <2>2, RequestGoesOn DEF new
<1>5. CASE /\ identities[s] = 0 /\ identities' = [identities EXCEPT ![s] = u]
           /\ callback' = [callback EXCEPT ![b] = Accounts!NoRequest] /\ signins' = signins \cup {<<s, u>>}
  <2> HIDE DEF s, u, r
  <2>1. identities' \in [Subjects -> 0 .. Len(users')]
    <3>1. u \in 0 .. Len(users) /\ identities \in [Subjects -> 0 .. Len(users)]
      BY <1>2 DEF SignInv, SignInTypeOK
    <3> QED BY <1>1, <1>5, <3>1
  <2>2. \A t \in Subjects : identities'[t] = IF t = s THEN u ELSE identities[t]
    BY <1>2, <1>5 DEF SignInv, SignInTypeOK
  <2>3. Accounts!VouchedFor'
    BY <1>1, <1>2, <2>2 DEF SignInv, Accounts!VouchedFor
  <2>4. SignedInIsLinked'
    BY <1>1, <1>2, <1>5, <2>2 DEF SignInv, SignedInIsLinked
  <2>5. callback'[b] = Accounts!NoRequest
    BY <1>5 DEF SignInv, SignInTypeOK
  <2>6. RequestOK(b)'
    BY <2>5, IdleRequest DEF RequestOK, Answered, IsVouched, Registers, HasAddress
  <2> QED BY <1>1, <1>3, <1>5, <2>1, <2>3, <2>4, <2>6, IdleRequest, OneRequest
<1> QED BY <1>4, <1>5 DEF Accounts!Link, Accounts!Goes, Accounts!SignedIn, Accounts!Ends

LEMMA RequestCloses ==
  ASSUME SignInv, NEW b \in Browsers, Accounts!FindAgain(b) \/ Accounts!RequestFails(b)
  PROVE  SignInv'
<1>1. UNCHANGED <<google, vouched, tabs, started, unlinked, identities, users>>
  BY DEF Accounts!FindAgain, Accounts!RequestFails, Accounts!providerVars
<1>2. UsersStay
  BY <1>1 DEF SignInv, SignInTypeOK, UsersStay
<1>3. callback' = [callback EXCEPT ![b] = Accounts!NoRequest]
  BY DEF Accounts!FindAgain, Accounts!RequestFails, Accounts!SignedIn, Accounts!Ends, Accounts!Goes
<1>4. \/ signins' = signins
      \/ \E u : /\ signins' = signins \cup {<<callback[b].who.subject, u>>}
                /\ u # 0 /\ identities[callback[b].who.subject] = u
  BY DEF Accounts!FindAgain, Accounts!RequestFails, Accounts!SignedIn
<1> QED BY <1>1, <1>2, <1>3, <1>4, RequestEnds

LEMMA OutsideSteps ==
  ASSUME SignInv,
         \/ \E s \in Subjects : \/ Accounts!unlink_identity(s)
                                \/ \E account \in GoogleAccount : Accounts!ChangeGoogle(s, account)
         \/ \E u \in DOMAIN users : Accounts!Deactivate(u)
  PROVE  SignInv'
<1>1. ASSUME NEW s \in Subjects, Accounts!unlink_identity(s)
      PROVE  SignInv'
  <2>1. /\ identities' = [identities EXCEPT ![s] = 0] /\ unlinked' = unlinked \cup {s}
        /\ UNCHANGED <<google, vouched, users, tabs, callback, started, signins>>
    BY <1>1 DEF Accounts!unlink_identity, Accounts!providerVars
  <2>2. UsersStay
    BY <2>1 DEF SignInv, SignInTypeOK, UsersStay
  <2>3. SignInTypeOK' /\ TabsAreVouched' /\ \A b \in Browsers : RequestOK(b)'
    <3>1. Len(users) \in Nat
      BY DEF SignInv, SignInTypeOK
    <3> QED BY <2>1, <2>2, <3>1, RequestStays DEF SignInv, SignInTypeOK, TabsAreVouched, TabIsVouched
  <2>4. \A t \in Subjects : identities'[t] = IF t = s THEN 0 ELSE identities[t]
    BY <2>1 DEF SignInv, SignInTypeOK
  <2>5. Accounts!VouchedFor' /\ SignedInIsLinked'
    BY <2>1, <2>4 DEF SignInv, Accounts!VouchedFor, SignedInIsLinked
  <2> QED BY <2>3, <2>5 DEF SignInv
<1>2. ASSUME NEW s \in Subjects, NEW account \in GoogleAccount, Accounts!ChangeGoogle(s, account)
      PROVE  SignInv'
  BY <1>2, ProviderSteps
    DEF Accounts!ChangeGoogle, SignInv, SignInTypeOK, TabsAreVouched, TabIsVouched
<1>3. ASSUME NEW u \in DOMAIN users, Accounts!Deactivate(u)
      PROVE  SignInv'
  <2> DEFINE user == [users[u] EXCEPT !.active = FALSE]
  <2>1. u \in 1 .. Len(users) /\ users[u] \in User
    BY DEF SignInv, SignInTypeOK
  <2>2. user \in User /\ user.email = users[u].email
    BY <2>1 DEF User
  <2>3. users' = [users EXCEPT ![u] = user]
    BY <1>3 DEF Accounts!Deactivate
  <2> HIDE DEF user
  <2>4. UsersStay
    BY <2>1, <2>2, <2>3, UserChanges
  <2>5. UNCHANGED <<google, vouched, identities, tabs, callback, started, signins, unlinked>>
    BY <1>3 DEF Accounts!Deactivate
  <2>6. \A b \in Browsers : RequestOK(b)'
    BY <2>4, <2>5, RequestStays
  <2>7. identities' \in [Subjects -> 0 .. Len(users')] /\ Accounts!VouchedFor' /\ SignedInIsLinked'
    BY <2>4, <2>5, LinksStay
  <2> QED BY <2>4, <2>5, <2>6, <2>7 DEF SignInv, SignInTypeOK, TabsAreVouched, TabIsVouched, UsersStay
<1> QED BY <1>1, <1>2, <1>3

LEMMA AccountsKept == Spec => []SignInv
<1>1. SignInv /\ [Accounts!Next]_(Accounts!signInVars) => SignInv'
  <2>1. ASSUME SignInv, UNCHANGED Accounts!signInVars PROVE SignInv'
    BY <2>1, ProviderSteps
      DEF Accounts!signInVars, Accounts!providerVars, SignInv, SignInTypeOK, TabsAreVouched, TabIsVouched
  <2>2. ASSUME SignInv, NEW b \in Browsers,
               \/ Accounts!Start(b) \/ Accounts!FindIdentity(b) \/ Accounts!FindUser(b) \/ Accounts!CreateUser(b)
               \/ Accounts!CreateOrg(b) \/ Accounts!Link(b) \/ Accounts!FindAgain(b) \/ Accounts!RequestFails(b)
               \/ \E email \in Emails : Accounts!Register(b, email)
        PROVE  SignInv'
    BY <2>2, FlowStarts, IdentityFound, UserFound, UserCreated, OrgCreated, IdentityLinked, RequestCloses,
       RegistrationBegins
  <2>3. ASSUME SignInv, NEW b \in Browsers, NEW tab \in tabs[b],
               \/ Accounts!Cancel(b, tab) \/ Accounts!Callback(b, tab)
               \/ \E s \in Subjects : Accounts!Answer(b, tab, s)
        PROVE  SignInv'
    BY <2>3, ProviderAnswers, AnswerComesBack
  <2>4. ASSUME SignInv, Accounts!Next PROVE SignInv'
    BY <2>2, <2>3, <2>4, OutsideSteps DEF Accounts!Next, GoogleAccount
  <2> QED BY <2>1, <2>4
<1>2. Accounts!Spec => []SignInv
  BY <1>1, SignInInitially, PTL DEF Accounts!Spec
<1> QED BY <1>2, AccountsRun, PTL

\* A Google account that has not been unlinked signs in as one user for good
\* (resolve_user).
THEOREM OneUserForGood == Spec => []StickyIdentity
<1>1. SignInv => StickyIdentity
  BY DEF SignInv, SignedInIsLinked, StickyIdentity, Accounts!StickyIdentity
<1> QED BY <1>1, AccountsKept, PTL

\* A user is linked only to a Google account that the provider has called the
\* verified owner of its address (resolve_user, identity_from_claims).
THEOREM LinkedToTheOwner == Spec => []VouchedFor
<1>1. SignInv => VouchedFor
  BY DEF SignInv, VouchedFor
<1> QED BY <1>1, AccountsKept, PTL
=============================================================================
