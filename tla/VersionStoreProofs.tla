------------------------- MODULE VersionStoreProofs -------------------------
(***************************************************************************)
(* Facts about version chains and stores, for every bound: the operations  *)
(* keep chains well formed, and neither a push nor a collection changes    *)
(* what an older snapshot reads.                                           *)
(***************************************************************************)
EXTENDS VersionStore, FiniteSetTheorems, WellFoundedInduction, TLAPS

\* A non-empty set of naturals has a least element.
LEMMA MinExists ==
  ASSUME NEW S \in SUBSET Nat, S # {}
  PROVE  \E m \in S : \A n \in S : m <= n
<1> DEFINE R == OpToRel(<, Nat)
<1>1. IsWellFoundedOn(R, Nat)
  BY NatLessThanWellFounded
<1>2. \A m, n \in Nat : n < m => <<n, m>> \in R
  BY DEF OpToRel
<1> HIDE DEF R
<1>3. PICK m \in S : \A n \in S : ~(<<n, m>> \in R)
  BY <1>1, WFMin
<1>4. \A n \in S : m <= n
  <2> TAKE n \in S
  <2>1. m \in Nat /\ n \in Nat
    OBVIOUS
  <2>2. ~(n < m)
    BY <1>2, <1>3, <2>1
  <2> QED BY <2>1, <2>2
<1> QED BY <1>4

\* Timestamps include the two reserved values.
LEMMA TsFacts ==
  /\ TS_INF \in Ts /\ TS_MAX \in Ts /\ TS_INF < TS_MAX
  /\ \A ts \in Ts : ts \in Nat /\ ts <= TS_MAX
  /\ NoData \in Data
BY BoundsAssumption DEF TS_INF, TS_MAX, Ts, NoData, Data

\* A new version is a version, and a new chain a chain.
LEMMA NewVersionType ==
  ASSUME NEW seq \in Nat, NEW ts \in Ts, NEW data \in Data, NEW is_delete \in BOOLEAN
  PROVE  NewVersion(seq, ts, data, is_delete) \in RowVersion
BY TsFacts DEF NewVersion, RowVersion

LEMMA NewChainType ==
  ASSUME NEW ts \in Ts, NEW data \in Data
  PROVE  NewChain(ts, data) \in VersionChain
<1>1. NewVersion(1, ts, data, FALSE) \in RowVersion
  BY NewVersionType
<1>2. IsFiniteSet({NewVersion(1, ts, data, FALSE)})
  BY FS_Singleton
<1> QED BY <1>1, <1>2 DEF NewChain, VersionChain

\* add_version keeps a chain a finite set of versions.
LEMMA AddVersionType ==
  ASSUME NEW chain \in VersionChain, NEW ts \in Ts, NEW data \in Data,
         NEW is_delete \in BOOLEAN
  PROVE  AddVersion(chain, ts, data, is_delete) \in VersionChain
<1> DEFINE V == chain.versions
           f == [v \in V |-> IF v.seq = chain.pushed /\ IsLatest(v)
                             THEN [v EXCEPT !.end = ts] ELSE v]
           W == {f[v] : v \in V}
           new == NewVersion(chain.pushed + 1, ts, data, is_delete)
<1>1. V \in SUBSET RowVersion /\ IsFiniteSet(V) /\ chain.pushed \in Nat
  BY DEF VersionChain
<1>2. new \in RowVersion
  <2> HIDE DEF new
  <2>1. chain.pushed + 1 \in Nat
    BY <1>1
  <2> QED BY <2>1, NewVersionType DEF new
<1>3. \A v \in V : f[v] \in RowVersion
  BY <1>1 DEF RowVersion
<1>4. W \in SUBSET RowVersion
  <2> HIDE DEF f
  <2> QED BY <1>3
<1>5. IsFiniteSet(W)
  <2> HIDE DEF f
  <2>1. f \in [V -> W]
    BY DEF f
  <2>2. f \in Surjection(V, W)
    BY <2>1 DEF Surjection
  <2> QED BY <2>2, <1>1, FS_Surjection
<1>6. IsFiniteSet(W \cup {new})
  <2> HIDE DEF W, new
  <2> QED BY <1>5, FS_AddElement
<1>7. AddVersion(chain, ts, data, is_delete)
        = [pushed |-> chain.pushed + 1, versions |-> W \cup {new}]
  BY DEF AddVersion
<1> HIDE DEF W, new
<1> QED BY <1>1, <1>2, <1>4, <1>6, <1>7 DEF VersionChain

\* Collection leaves a chain a chain and only removes versions.
LEMMA ChainGcType ==
  ASSUME NEW chain \in VersionChain, NEW oldest \in Ts
  PROVE  /\ ChainGc(chain, oldest) \in VersionChain
         /\ ChainGc(chain, oldest).versions \subseteq chain.versions
<1>1. chain.versions \in SUBSET RowVersion /\ IsFiniteSet(chain.versions)
  BY DEF VersionChain
<1> DEFINE W == {v \in chain.versions : IsLatest(v) \/ v.end > oldest}
<1>2. IsFiniteSet(W)
  BY <1>1, FS_Subset
<1>3. ChainGc(chain, oldest) = chain
        \/ ChainGc(chain, oldest) = [chain EXCEPT !.versions = W]
  BY DEF ChainGc
<1>4. W \in SUBSET chain.versions
  OBVIOUS
<1> HIDE DEF W
<1> QED BY <1>1, <1>2, <1>3, <1>4 DEF VersionChain

-----------------------------------------------------------------------------
\* Stores: the operations of VersionStore keep a store well typed; its count is
\* an integer because only finitely many versions can be removed.
LEMMA StoreInsertType ==
  ASSUME NEW store \in Store, NEW row \in Rows, NEW ts \in Ts, NEW data \in Data
  PROVE  StoreInsert(store, row, ts, data) \in Store
<1>1. NewChain(ts, data) \in VersionChain
  BY NewChainType
<1> QED BY <1>1 DEF StoreInsert, Store

LEMMA StorePushType ==
  ASSUME NEW store \in Store, NEW row \in Rows, NEW ts \in Ts, NEW data \in Data,
         NEW is_delete \in BOOLEAN
  PROVE  StorePush(store, row, ts, data, is_delete) \in Store
<1>1. store.chains[row] \in VersionChain
  BY DEF Store
<1>2. AddVersion(store.chains[row], ts, data, is_delete) \in VersionChain
  BY <1>1, AddVersionType
<1> QED BY <1>2 DEF StorePush, Store

LEMMA EmptyStoreType == EmptyStore \in Store
<1>1. NoChain \in VersionChain
  BY FS_EmptySet DEF NoChain, VersionChain
<1> QED BY <1>1 DEF EmptyStore, Store

LEMMA RemovedFinite ==
  ASSUME NEW store \in Store, NEW oldest \in Ts
  PROVE  Cardinality(Removed(store, oldest)) \in Nat
<1> DEFINE f == [r \in Rows |-> store.chains[r].versions]
           VV == {f[r] : r \in Rows}
<1>1. IsFiniteSet(Rows)
  BY BoundsAssumption, FS_Interval DEF Rows
<1>2. \A r \in Rows : IsFiniteSet(f[r])
  BY DEF Store, VersionChain
<1>3. IsFiniteSet(VV)
  <2>1. f \in Surjection(Rows, VV)
    <3> HIDE DEF f
    <3>1. f \in [Rows -> VV]
      BY DEF f
    <3> QED BY <3>1 DEF Surjection
  <2> HIDE DEF VV, f
  <2> QED BY <2>1, <1>1, FS_Surjection
<1>4. \A W \in VV : IsFiniteSet(W)
  <2> HIDE DEF f
  <2> QED BY <1>2
<1>5. Versions(store) = UNION VV
  BY DEF Versions
<1>6. IsFiniteSet(UNION VV)
  <2> HIDE DEF VV
  <2> QED BY <1>3, <1>4, FS_UNION
<1>7. IsFiniteSet(Rows \X Versions(store))
  BY <1>1, <1>5, <1>6, FS_Product
<1>8. Removed(store, oldest) \in SUBSET (Rows \X Versions(store))
  BY DEF Removed
<1> QED BY <1>7, <1>8, FS_Subset, FS_CardinalityType

LEMMA StoreGcType ==
  ASSUME NEW store \in Store, NEW oldest \in Ts
  PROVE  StoreGc(store, oldest) \in Store
<1>1. \A r \in Rows : ChainGc(store.chains[r], oldest) \in VersionChain
  BY ChainGcType DEF Store
<1>2. NoChain \in VersionChain
  BY FS_EmptySet DEF NoChain, VersionChain
<1>3. Cardinality(Removed(store, oldest)) \in Nat
  BY RemovedFinite
<1> QED BY <1>1, <1>2, <1>3 DEF StoreGc, Store

-----------------------------------------------------------------------------
\* What a snapshot reads.  VersionChain::gc with the oldest active timestamp
\* keeps, for every snapshot at or above it, exactly the versions it sees.
THEOREM GcKeepsReads ==
  ASSUME NEW chain \in VersionChain, NEW oldest \in Ts, NEW ts \in Ts, oldest <= ts
  PROVE  ReadAt(ChainGc(chain, oldest), ts) = ReadAt(chain, ts)
<1>1. VisibleVersions(ChainGc(chain, oldest), ts) = VisibleVersions(chain, ts)
  <2>1. \A v \in chain.versions : v.end \in Nat
    BY TsFacts DEF VersionChain, RowVersion
  <2>2. oldest \in Nat /\ ts \in Nat
    BY TsFacts
  <2>3. \A v \in chain.versions : IsVisibleAt(v, ts) => v.end > oldest
    BY <2>1, <2>2 DEF IsVisibleAt
  <2>4. CASE ChainGc(chain, oldest) = chain
    BY <2>4
  <2>5. CASE ChainGc(chain, oldest)
               = [chain EXCEPT !.versions = {v \in @ : IsLatest(v) \/ v.end > oldest}]
    <3>1. ChainGc(chain, oldest).versions
            = {v \in chain.versions : IsLatest(v) \/ v.end > oldest}
      BY <2>5 DEF VersionChain
    <3> QED BY <3>1, <2>3 DEF VisibleVersions
  <2> QED BY <2>4, <2>5 DEF ChainGc
<1> QED BY <1>1 DEF ReadAt, FirstVisible

\* Push numbers identify the versions of a chain; the newest is `pushed`.
WellFormed(chain) ==
  /\ chain \in VersionChain
  /\ \A v \in chain.versions : v.seq <= chain.pushed
  /\ \A v, w \in chain.versions : v.seq = w.seq => v = w

\* A set of versions with bounded push numbers has a newest one.
LEMMA NewestExists ==
  ASSUME NEW chain, WellFormed(chain), NEW V \in SUBSET chain.versions, V # {}
  PROVE  \E v \in V : \A w \in V : w.seq <= v.seq
<1> DEFINE p == chain.pushed
           S == {p - v.seq : v \in V}
<1>1. p \in Nat /\ \A v \in V : v.seq \in Nat /\ v.seq <= p
  BY DEF WellFormed, VersionChain, RowVersion
<1>2. S \in SUBSET Nat /\ S # {}
  <2>1. \A v \in V : p - v.seq \in Nat
    BY <1>1
  <2> HIDE DEF p
  <2> QED BY <2>1
<1>3. PICK m \in S : \A n \in S : m <= n
  <2> HIDE DEF S
  <2> QED BY <1>2, MinExists
<1>4. PICK v \in V : m = p - v.seq
  OBVIOUS
<1>5. \A w \in V : p - v.seq <= p - w.seq
  BY <1>3, <1>4
<1>6. \A w \in V : w.seq <= v.seq
  <2> HIDE DEF p
  <2> QED BY <1>1, <1>5
<1> QED BY <1>6

\* add_version keeps push numbers unique.
LEMMA AddVersionWellFormed ==
  ASSUME NEW chain, WellFormed(chain), NEW ts \in Ts, NEW data \in Data,
         NEW is_delete \in BOOLEAN
  PROVE  WellFormed(AddVersion(chain, ts, data, is_delete))
<1> DEFINE new == AddVersion(chain, ts, data, is_delete)
           End(v) == IF v.seq = chain.pushed /\ IsLatest(v) THEN [v EXCEPT !.end = ts] ELSE v
           top == NewVersion(chain.pushed + 1, ts, data, is_delete)
<1>1. new \in VersionChain
  BY AddVersionType DEF WellFormed
<1>2. /\ new.pushed = chain.pushed + 1
      /\ new.versions = {End(v) : v \in chain.versions} \cup {top}
  BY DEF AddVersion
<1>3. chain.pushed \in Nat /\ \A v \in chain.versions : v \in RowVersion /\ v.seq \in Nat
  BY DEF WellFormed, VersionChain, RowVersion
<1>4. \A v \in chain.versions : End(v).seq = v.seq
  BY <1>3 DEF RowVersion
<1>5. top.seq = chain.pushed + 1
  BY DEF NewVersion
<1> HIDE DEF new, End, top
<1>6. \A v \in new.versions : v.seq <= new.pushed
  BY <1>2, <1>3, <1>4, <1>5 DEF WellFormed
<1>7. \A v, w \in new.versions : v.seq = w.seq => v = w
  <2> SUFFICES ASSUME NEW v \in new.versions, NEW w \in new.versions, v.seq = w.seq
               PROVE  v = w
    OBVIOUS
  <2>1. CASE v = top \/ w = top
    BY <2>1, <1>2, <1>3, <1>4, <1>5 DEF WellFormed
  <2>2. CASE v # top /\ w # top
    <3>1. PICK a \in chain.versions : v = End(a)
      BY <2>2, <1>2
    <3>2. PICK b \in chain.versions : w = End(b)
      BY <2>2, <1>2
    <3>3. a = b
      BY <3>1, <3>2, <1>4 DEF WellFormed
    <3> QED BY <3>1, <3>2, <3>3
  <2> QED BY <2>1, <2>2
<1> QED BY <1>1, <1>6, <1>7 DEF WellFormed, new

\* A commit at `ts` does not change what an older snapshot `old` reads: the
\* version it supersedes ends at ts, which is still after the snapshot.
THEOREM PushKeepsReads ==
  ASSUME NEW chain, WellFormed(chain), NEW ts \in 1..MaxTs, NEW old \in Ts, old < ts,
         NEW data \in Data, NEW is_delete \in BOOLEAN
  PROVE  ReadAt(AddVersion(chain, ts, data, is_delete), old) = ReadAt(chain, old)
<1> DEFINE new == AddVersion(chain, ts, data, is_delete)
           End(v) == IF v.seq = chain.pushed /\ IsLatest(v) THEN [v EXCEPT !.end = ts] ELSE v
           top == NewVersion(chain.pushed + 1, ts, data, is_delete)
           VO == VisibleVersions(chain, old)
           VN == VisibleVersions(new, old)
<1>1. ts \in Ts /\ ts < TS_INF /\ ts \in Nat /\ old \in Nat /\ TS_INF \in Nat
  BY BoundsAssumption DEF Ts, TS_INF, TS_MAX
<1>2. WellFormed(new)
  BY <1>1, AddVersionWellFormed
<1>3. new.versions = {End(v) : v \in chain.versions} \cup {top}
  BY DEF AddVersion
<1>4. \A v \in chain.versions :
        /\ End(v).seq = v.seq /\ End(v).data = v.data /\ End(v).is_delete = v.is_delete
        /\ End(v).begin = v.begin
        /\ IsVisibleAt(End(v), old) <=> IsVisibleAt(v, old)
  <2> SUFFICES ASSUME NEW v \in chain.versions
               PROVE  /\ End(v).seq = v.seq /\ End(v).data = v.data
                      /\ End(v).is_delete = v.is_delete /\ End(v).begin = v.begin
                      /\ IsVisibleAt(End(v), old) <=> IsVisibleAt(v, old)
    OBVIOUS
  <2>1. v \in RowVersion
    BY DEF WellFormed, VersionChain
  <2>2. CASE v.seq = chain.pushed /\ IsLatest(v)
    <3>1. End(v) = [v EXCEPT !.end = ts] /\ v.end = TS_INF
      BY <2>2 DEF IsLatest
    <3>2. /\ End(v).seq = v.seq /\ End(v).data = v.data
          /\ End(v).is_delete = v.is_delete /\ End(v).begin = v.begin /\ End(v).end = ts
      BY <2>1, <3>1 DEF RowVersion
    <3> HIDE DEF End
    <3> QED BY <1>1, <3>1, <3>2 DEF IsVisibleAt
  <2>3. CASE ~(v.seq = chain.pushed /\ IsLatest(v))
    BY <2>3
  <2> QED BY <2>2, <2>3
<1>5. ~IsVisibleAt(top, old)
  BY <1>1 DEF NewVersion, IsVisibleAt
<1> HIDE DEF End, top
<1>6. VN = {End(v) : v \in VO}
  BY <1>3, <1>4, <1>5 DEF VisibleVersions
<1> HIDE DEF VO, VN, new
<1>7. CASE VO = {}
  BY <1>6, <1>7 DEF ReadAt, VO, VN, new
<1>8. CASE VO # {}
  <2> DEFINE m == FirstVisible(chain, old)
             n == FirstVisible(new, old)
  <2>1. VO \in SUBSET chain.versions /\ VN \in SUBSET new.versions /\ VN # {}
    BY <1>6, <1>8 DEF VO, VN, VisibleVersions
  <2>2. \E v \in VO : \A w \in VO : w.seq <= v.seq
    BY <2>1, <1>8, NewestExists
  <2>3. \E v \in VN : \A w \in VN : w.seq <= v.seq
    BY <2>1, <1>2, NewestExists
  <2>4. m \in VO /\ \A w \in VO : w.seq <= m.seq
    BY <2>2 DEF FirstVisible, VO
  <2>5. n \in VN /\ \A w \in VN : w.seq <= n.seq
    BY <2>3 DEF FirstVisible, VN
  <2> HIDE DEF m, n
  <2>6. PICK a \in VO : n = End(a)
    BY <2>5, <1>6
  <2>7. \A v \in VO : v.seq \in Nat
    BY <2>1 DEF WellFormed, VersionChain, RowVersion
  <2>8. a.seq = m.seq
    <3>1. a.seq <= m.seq
      BY <2>4, <2>6
    <3>2. End(m) \in VN
      BY <2>4, <1>6
    <3>3. m.seq <= a.seq
      BY <3>2, <2>4, <2>5, <2>6, <2>1, <1>4
    <3> QED BY <3>1, <3>3, <2>7, <2>4
  <2>9. a = m
    BY <2>8, <2>1, <2>4 DEF WellFormed
  <2>10. n.is_delete = m.is_delete /\ n.data = m.data
    BY <2>6, <2>9, <2>1, <1>4
  <2>11. ReadAt(chain, old) = IF m.is_delete THEN NoData ELSE m.data
    BY <1>8 DEF ReadAt, m, VO
  <2>12. ReadAt(new, old) = IF n.is_delete THEN NoData ELSE n.data
    BY <2>1 DEF ReadAt, n, VN
  <2> QED BY <2>10, <2>11, <2>12 DEF new
<1> QED BY <1>7, <1>8
=============================================================================
