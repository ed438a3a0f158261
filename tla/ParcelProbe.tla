----------------------------- MODULE ParcelProbe -----------------------------
(***************************************************************************)
(* A county's ArcGIS parcel layer, its bounded probe and the proof rows     *)
(* (parcel_source_acquisition*.py, storage/parcel_source_acquisition_       *)
(* {bundle_,}store.py).  A probe asks four things of a live layer, one      *)
(* request after the other: the count, a first page, the next page, the     *)
(* first page again; the layer's owner edits it in between.  The answers    *)
(* are assessed, and stored so that a request keeps its first answer.  A    *)
(* plan has a sample size; plans of one snapshot share the count's request. *)
(* A request's own retries are later answers to it.  Identities are         *)
(* digests of content that includes times: a probe run stands for its own.  *)
(***************************************************************************)
EXTENDS Naturals, Sequences, FiniteSets, SequencesExt

CONSTANTS
  Snapshots,       \* capability snapshots taken of the layer's metadata
  Probes,          \* executions of a plan of a snapshot
  Workloads,       \* a behaviour keeps to one of these: the object IDs there may
                   \* be, numbers; what the layer may hold at first; whether
                   \* the metadata suffices; the plans' sample sizes; bounds on
                   \* edits, probes, stored assessments and rehearsals
  Nil

\* Object IDs are not negative, as _normalize_object_ids demands.
ASSUME ProbeConstants ==
  /\ \A w \in Workloads :
       /\ w.ids \subseteq Nat /\ IsFiniteSet(w.ids)
       /\ w.layers \subseteq SUBSET w.ids /\ w.advertised \subseteq BOOLEAN
       /\ w.sizes \subseteq Nat \ {0}
       /\ {w.edits, w.probes, w.assessments, w.rehearsals} \subseteq Nat

VARIABLES
  work,    \* the behaviour's workload
  live,    \* the records of the layer now
  edits,
  ready,   \* snapshot -> the metadata advertises everything a probe needs
  probe,   \* probe -> [snapshot, size: its plan's, answers, steady: nothing moved
           \* so far], or Nil
  rows     \* stored [observations, manifests, assessments]

probeVars == <<work, live, edits, ready, probe, rows>>

Kinds == <<"count", "initial", "next", "replay">>

AtLeast(n, low) == IF n < low THEN low ELSE n
AtMost(n, high) == IF n > high THEN high ELSE n

\* The n-th record in the order of object IDs.
Nth(records, n) == CHOOSE id \in records : Cardinality({r \in records : r <= id}) = n

Page(records, offset, size) ==
  LET count == Cardinality(records) IN
  [n \in 1 .. AtMost(AtLeast(count, offset) - offset, size) |-> Nth(records, offset + n)]

Offset(kind, size) == IF kind = "next" THEN size ELSE 0

Response(records, kind, size) ==
  IF kind = "count" THEN [count |-> Cardinality(records)]
  ELSE [ids |-> Page(records, Offset(kind, size), size),
        exceeded |-> Cardinality(records) > Offset(kind, size) + size]

Answers == [count : Nat] \cup [ids : Seq(Nat), exceeded : BOOLEAN]
Probe == [snapshot : Snapshots, size : Nat \ {0}, answers : Seq(Answers), steady : BOOLEAN]

\* The sentinel is no probe's record.
ASSUME NilIsNoProbe == Nil \notin Probe

Running(p) == probe[p] # Nil /\ Len(probe[p].answers) < Len(Kinds)
Complete(p) == probe[p] # Nil /\ Len(probe[p].answers) = Len(Kinds)

\* An observation is <<probe, index of its request>>.
AnswerTo(o) == probe[o[1]].answers[o[2]]

\* Its request is one of the plan's: the count's is the same in every plan.
InPlan(o, s, size) ==
  probe[o[1]].snapshot = s /\ (o[2] = 1 \/ probe[o[1]].size = size)

SameRequest(o, q) == o[2] = q[2] /\ InPlan(o, probe[q[1]].snapshot, probe[q[1]].size)

StartProbe(p, s, size) ==
  /\ probe[p] = Nil /\ Cardinality({q \in Probes : probe[q] # Nil}) < work.probes
  /\ probe' = [probe EXCEPT ![p] = [snapshot |-> s, size |-> size, answers |-> <<>>,
                                    steady |-> TRUE]]
  /\ UNCHANGED <<work, live, edits, ready, rows>>

Ask(p) ==
  /\ Running(p)
  /\ probe' = [probe EXCEPT ![p].answers =
       Append(@, Response(live, Kinds[Len(@) + 1], probe[p].size))]
  /\ UNCHANGED <<work, live, edits, ready, rows>>
-----------------------------------------------------------------------------
\* Pages past the end expected to be full.
ExpectedNextSlip(count, size) == size

ExpectedNext(count, size) == AtMost(AtLeast(count, size) - size, size)

PageSequenceIsValid(initial, next, replay, count, size) ==
  LET all == initial.ids \o next.ids IN
  /\ initial = replay
  /\ \A i \in 1 .. Len(all) - 1 : all[i] < all[i + 1]
  /\ count > size => initial.exceeded
  /\ count > 2 * size => next.exceeded
  /\ Len(initial.ids) = AtMost(count, size)
  /\ Len(next.ids) = ExpectedNext(count, size)

\* build_arcgis_acquisition_assessment: obs holds one observation per request
\* of the plan at most; manifest is Nil or a rehearsal's.
Gaps(s, size, obs, manifest) ==
  LET Has(k) == \E o \in obs : o[2] = k
      Answer(k) == AnswerTo(CHOOSE o \in obs : o[2] = k)
      valid == Has(1) /\ PageSequenceIsValid(Answer(2), Answer(3), Answer(4),
                                             Answer(1).count, size)
  IN {g \in {"capability", "count", "page", "replay", "sequence", "rehearsal"} :
        CASE g = "capability" -> ~ready[s]
          [] g = "count"      -> ~Has(1)
          [] g = "page"       -> ~Has(2) \/ ~Has(3)
          [] g = "replay"     -> ~Has(4)
          [] g = "sequence"   -> Has(2) /\ Has(3) /\ Has(4) /\ ~valid
          [] g = "rehearsal"  -> manifest = Nil}

Status(gaps) ==
  IF gaps \cap {"capability", "sequence"} # {} THEN "blocked"
  ELSE IF gaps = {} THEN "bulk_rehearsal_verified"
  ELSE IF gaps = {"rehearsal"} THEN "bounded_query_verified" ELSE "metadata_only"

Assessment(s, size, obs, manifest) ==
  [snapshot |-> s, size |-> size, observations |-> obs, manifest |-> manifest,
   status |-> Status(Gaps(s, size, obs, manifest))]
-----------------------------------------------------------------------------
\* Rows are appended; one that is there already, exactly, is accepted.
\* A second answer to a request stored beside the first.
StorableSlip(obs) == TRUE

Storable(obs) ==
  \A o \in obs, q \in rows.observations : SameRequest(o, q) => o = q

StoreObservation(p, k) ==
  /\ probe[p] # Nil /\ k <= Len(probe[p].answers)
  /\ <<p, k>> \notin rows.observations /\ Storable({<<p, k>>})
  /\ rows' = [rows EXCEPT !.observations = @ \cup {<<p, k>>}]
  /\ UNCHANGED <<work, live, edits, ready, probe>>

\* Any count will do.
ReconcilesSlip(manifest, obs) == \E o \in obs : o[2] = 1

\* The count observation a manifest has to agree with, among obs.
Reconciles(manifest, obs) ==
  \E o \in obs : o[2] = 1 /\ AnswerTo(o).count = manifest.start

\* Of the answers stored for the plan's requests, and a stored manifest or none.
StoreAssessment(s, size, manifest) ==
  LET obs == {o \in rows.observations : InPlan(o, s, size)}
      a == Assessment(s, size, obs, manifest) IN
  /\ \A o, q \in obs : SameRequest(o, q) => o = q
  /\ manifest # Nil => manifest.snapshot = s /\ Reconciles(manifest, obs)
  /\ a \notin rows.assessments /\ Cardinality(rows.assessments) < work.assessments
  /\ rows' = [rows EXCEPT !.assessments = @ \cup {a}]
  /\ UNCHANGED <<work, live, edits, ready, probe>>

\* A probe's portable bundle, all four answers and their assessment, in one
\* transaction.
PersistBundle(p) ==
  LET obs == {p} \X (1 .. Len(Kinds))
      a == Assessment(probe[p].snapshot, probe[p].size, obs, Nil) IN
  /\ Complete(p) /\ Storable(obs)
  /\ a \notin rows.assessments /\ Cardinality(rows.assessments) < work.assessments
  /\ rows' = [rows EXCEPT !.observations = @ \cup obs, !.assessments = @ \cup {a}]
  /\ UNCHANGED <<work, live, edits, ready, probe>>

\* The owner adds or removes a record.
EditedTo(records) ==
  /\ edits < work.edits /\ edits' = edits + 1
  /\ live' = records
  /\ probe' = [p \in Probes |->
       IF Running(p) THEN [probe[p] EXCEPT !.steady = Len(probe[p].answers) = 0] ELSE probe[p]]
  /\ UNCHANGED <<work, ready, rows>>

ProbeInit ==
  /\ work \in Workloads /\ live \in work.layers /\ edits = 0
  /\ ready \in [Snapshots -> work.advertised]
  /\ probe = [p \in Probes |-> Nil]
  /\ rows = [observations |-> {}, manifests |-> {}, assessments |-> {}]

ProbeNext ==
  \/ \E p \in Probes :
       \/ \E s \in Snapshots, size \in work.sizes : StartProbe(p, s, size)
       \/ Ask(p) \/ PersistBundle(p)
       \/ \E k \in 1 .. Len(Kinds) : StoreObservation(p, k)
  \/ \E s \in Snapshots, size \in work.sizes, manifest \in rows.manifests \cup {Nil} :
       StoreAssessment(s, size, manifest)
=============================================================================
