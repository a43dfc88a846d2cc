---------------------------- MODULE VersionStore ----------------------------
(***************************************************************************)
(* Row version chains of storage/mvcc/version_store.rs, as pure operators. *)
(*                                                                         *)
(* A chain is the code's newest-first vector of versions.  It is kept here *)
(* as a set: `seq` is the push number of a version, so the vector order is *)
(* decreasing seq, its first element is the version with seq = pushed, and *)
(* `retain` is a set filter.  Timestamps are naturals up to MaxTs; TS_INF  *)
(* and TS_MAX stand for u64::MAX - 1 and u64::MAX.                         *)
(*                                                                         *)
(* Row data is a function from columns to values; 0 is "column missing",   *)
(* and a row with no column is the empty map.                              *)
(***************************************************************************)
EXTENDS Integers, FiniteSets

CONSTANTS MaxRow,   \* largest row id of a table
          Cols,     \* columns of a row
          MaxVal,   \* largest cell value
          MaxTs     \* bound on the timestamps handed out

ASSUME BoundsAssumption == MaxTs \in Nat /\ MaxVal \in Nat /\ MaxRow \in Nat

Rows == 1..MaxRow        \* row ids start at FIRST_ROW_ID

TS_INF == MaxTs + 1
TS_MAX == MaxTs + 2
Ts     == 0..TS_MAX
Data   == [Cols -> 0..MaxVal]
NoData == [c \in Cols |-> 0]

RowVersion == [seq: Nat, begin: Ts, end: Ts, data: Data, is_delete: BOOLEAN]
VersionChain == [pushed: Nat, versions: {V \in SUBSET RowVersion : IsFiniteSet(V)}]
NoChain == [pushed |-> 0, versions |-> {}]

IsVisibleAt(v, ts) == v.begin <= ts /\ ts < v.end
IsLatest(v) == v.end = TS_INF

NewVersion(seq, ts, data, is_delete) ==
  [seq |-> seq, begin |-> ts, end |-> TS_INF, data |-> data, is_delete |-> is_delete]

\* The chain of a freshly inserted row; whatever was there before is replaced.
NewChain(ts, data) ==
  [pushed |-> 1, versions |-> {NewVersion(1, ts, data, FALSE)}]

\* First version of the vector, and the first one visible at ts.
Latest(chain) == CHOOSE v \in chain.versions : v.seq = chain.pushed
VisibleVersions(chain, ts) == {v \in chain.versions : IsVisibleAt(v, ts)}
FirstVisible(chain, ts) ==
  CHOOSE v \in VisibleVersions(chain, ts) :
    \A w \in VisibleVersions(chain, ts) : w.seq <= v.seq

\* Mutant: the superseded version is left open.
AddVersionOpen(chain, ts, data, is_delete) ==
  [pushed   |-> chain.pushed + 1,
   versions |-> chain.versions \cup {NewVersion(chain.pushed + 1, ts, data, is_delete)}]

\* Push a version on top of a chain, ending the version it supersedes.
AddVersion(chain, ts, data, is_delete) ==
  [pushed   |-> chain.pushed + 1,
   versions |-> {IF v.seq = chain.pushed /\ IsLatest(v) THEN [v EXCEPT !.end = ts] ELSE v :
                   v \in chain.versions}
                \cup {NewVersion(chain.pushed + 1, ts, data, is_delete)}]

\* VersionStore::read: the data visible at ts, or nothing.
ReadAt(chain, ts) ==
  IF VisibleVersions(chain, ts) = {} \/ FirstVisible(chain, ts).is_delete
  THEN NoData ELSE FirstVisible(chain, ts).data

\* VersionStore::read_latest is some / exists at a timestamp in the far future.
LatestLive(chain) == chain.versions # {} /\ ~Latest(chain).is_delete

\* Mutant: every superseded version is dropped.
ChainGcAll(chain, oldest) == [chain EXCEPT !.versions = {v \in @ : IsLatest(v)}]

\* VersionChain::gc: drop superseded versions that ended at or before `oldest`.
ChainGc(chain, oldest) ==
  IF Cardinality(chain.versions) <= 1 THEN chain
  ELSE [chain EXCEPT !.versions = {v \in @ : IsLatest(v) \/ v.end > oldest}]

(***************************************************************************)
(* A store maps each row to a chain (NoChain when the map has no entry).   *)
(***************************************************************************)
Store == [chains: [Rows -> VersionChain], total_versions: Int]
EmptyStore == [chains |-> [r \in Rows |-> NoChain], total_versions |-> 0]

RowCount(store) == Cardinality({r \in Rows : store.chains[r].versions # {}})

StoreInsert(store, row, ts, data) ==
  [chains |-> [store.chains EXCEPT ![row] = NewChain(ts, data)],
   total_versions |-> store.total_versions + 1]

\* update and delete fail on a row without a chain; the callers drop the error.
StorePush(store, row, ts, data, is_delete) ==
  IF store.chains[row].versions = {} THEN store
  ELSE [chains |-> [store.chains EXCEPT ![row] = AddVersion(@, ts, data, is_delete)],
        total_versions |-> store.total_versions + 1]

\* A chain whose latest version is a tombstone is dropped only past TS_INF,
\* that is only when no snapshot is active.
Collectable(chain, oldest) ==
  chain.versions # {} /\ Latest(chain).is_delete /\ Latest(chain).end < oldest

Versions(store) == UNION {store.chains[r].versions : r \in Rows}
Removed(store, oldest) ==
  {e \in Rows \X Versions(store) :
     e[2] \in store.chains[e[1]].versions \ ChainGc(store.chains[e[1]], oldest).versions}

StoreGc(store, oldest) ==
  LET kept == [r \in Rows |-> ChainGc(store.chains[r], oldest)]
  IN  [chains |-> [r \in Rows |-> IF Collectable(kept[r], oldest) THEN NoChain ELSE kept[r]],
       total_versions |-> store.total_versions - Cardinality(Removed(store, oldest))]

=============================================================================
