--------------------------- MODULE BusinessFacts ---------------------------
(***************************************************************************)
(* The business database of one tenant: the source facts that the loader   *)
(* imports, the published policy indexes and the immutable snapshots that  *)
(* Runs are admitted with.                                                 *)
(*                                                                         *)
(* A row is its revision, 0 when there is none: a changed body has another *)
(* revision.  A ticket names one order and that order one delivery; the    *)
(* policy is the registered one and never changes.                         *)
(***************************************************************************)
EXTENDS Naturals, Sequences

CONSTANTS
    Tickets,
    Misplaced,      \* tickets whose delivery row belongs to another order
    Datasets,       \* what operators may import
    Seed,           \* the dataset the service starts with
    Uploads,        \* what operators may publish as an index
    SeedIndex,      \* the index the service starts with
    Keys,           \* request keys of snapshots
    NoSnapshot

Tables == {"ticket", "order", "delivery"}

ASSUME FactsAssumption ==
    /\ Misplaced \subseteq Tickets
    /\ Seed \in Datasets
    /\ SeedIndex \in Uploads
    /\ \A d \in Datasets : /\ d.version \in Nat
                           /\ d.rows \in [Tables -> [Tickets -> Nat]]
    /\ \A u \in Uploads : u.profile \in Nat /\ u.content \in Nat

VARIABLES
    facts,      \* revision of every source row
    imports,    \* dataset versions imported so far, with their content
    indexes,    \* published indexes in the order of publication
    snapshots   \* snapshot of every request key

factVars == <<facts, imports, indexes, snapshots>>

ImportedVersions == {d.version : d \in imports}
-----------------------------------------------------------------------------
(***************************************************************************)
(* What a ticket's version vector says.  A missing row is told apart from  *)
(* every revision, and a row behind a missing one is not looked for.       *)
(***************************************************************************)
\* A snapshot finds the delivery only under the ticket's own order.
DeliveryRevision(t) ==
    IF facts["order"][t] = 0 \/ t \in Misplaced THEN 0 ELSE facts["delivery"][t]

VersionVector(t, index) ==
    [ticket   |-> facts["ticket"][t],
     order    |-> facts["order"][t],
     delivery |-> DeliveryRevision(t),
     index    |-> index]

\* What such a vector is made of.
Vectors == [ticket : Nat, order : Nat, delivery : Nat, index : Nat]

\* The index a new snapshot binds: the one published last.
LatestIndex == Len(indexes)

ValidRows(rows) ==
    \E t \in Tickets : rows["ticket"][t] > 0

ValidateDataset(d) == ValidRows(d.rows)

\* Every ticket the service serves can be captured: its row, the policy and a
\* complete published index are there.
CheckTenantReady ==
    /\ \A t \in Tickets : facts["ticket"][t] > 0
    /\ indexes # <<>>
-----------------------------------------------------------------------------
(***************************************************************************)
(* The loader.  All statements of an import or a publication take the      *)
(* source guard first and commit together.                                 *)
(***************************************************************************)
\* The row after an insert that does nothing on conflict.
InsertSource(old, new) == IF old = 0 THEN new ELSE old

\* An existing row with another fingerprint refuses the whole dataset.
SourceConflict(old, new) == old # 0 /\ new # 0 /\ old # new

ImportDataset(d) ==
    /\ ValidateDataset(d)
    /\ d.version \notin ImportedVersions
    /\ \A tab \in Tables, t \in Tickets :
            ~SourceConflict(facts[tab][t], d.rows[tab][t])
    /\ imports' = imports \union {d}
    /\ facts' = [tab \in Tables |-> [t \in Tickets |->
                    InsertSource(facts[tab][t], d.rows[tab][t])]]
    /\ UNCHANGED <<indexes, snapshots>>

\* One index per profile; the same profile with other content is refused, with
\* the same content it is the index already published.
ValidateIndexUpload(u) == u.content > 0

PublishIndex(u) ==
    /\ ValidateIndexUpload(u)
    /\ \A i \in DOMAIN indexes : indexes[i].profile # u.profile
    /\ indexes' = Append(indexes, u)
    /\ UNCHANGED <<facts, imports, snapshots>>
-----------------------------------------------------------------------------
(***************************************************************************)
(* Snapshots.                                                              *)
(***************************************************************************)
\* What one repeatable-read transaction sees.
Captured(t) == [ticket |-> t, vector |-> VersionVector(t, LatestIndex)]

CanCapture(t) == facts["ticket"][t] > 0 /\ indexes # <<>>

\* The first insert under a key stays; losing writers read it again.
createSnapshotOnce(k, t) ==
    /\ snapshots[k] = NoSnapshot
    /\ CanCapture(t)
    /\ snapshots' = [snapshots EXCEPT ![k] = Captured(t)]
    /\ UNCHANGED <<facts, imports, indexes>>

CreateSnapshot(k, t) ==
    \/ createSnapshotOnce(k, t)
    \/ snapshots[k] # NoSnapshot /\ UNCHANGED factVars
-----------------------------------------------------------------------------
\* The service starts on a seeded database with a published index.
FactsInit ==
    /\ facts = Seed.rows
    /\ imports = {Seed}
    /\ indexes = <<SeedIndex>>
    /\ snapshots = [k \in Keys |-> NoSnapshot]
    /\ CheckTenantReady

FactsTypeOK ==
    /\ facts \in [Tables -> [Tickets -> Nat]]
    /\ imports \subseteq Datasets
    /\ \A i \in DOMAIN indexes : indexes[i] \in Uploads
    /\ \A k \in Keys : snapshots[k] = NoSnapshot \/ snapshots[k].ticket \in Tickets
=============================================================================
