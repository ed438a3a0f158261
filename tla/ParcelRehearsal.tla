--------------------------- MODULE ParcelRehearsal ---------------------------
(***************************************************************************)
(* The complete rehearsal of a county's parcel layer                        *)
(* (parcel_source_bulk_rehearsal*.py) beside its bounded probe: count, read *)
(* every page of object IDs in order, checkpoint, survive an injected       *)
(* failure, count again, reconcile, and keep the exact responses, while the *)
(* layer's owner goes on editing it.  Pages are addressed by offset, so an  *)
(* edit in front of the offset shifts what is still to come.                *)
(***************************************************************************)
EXTENDS ParcelProbe

CONSTANTS
  PageSize, CheckpointAfter, InjectAt, MaxAttempts,  \* the rehearsal policy
  FailureKinds      \* transient failures, as the retry evidence names them

\* ParcelArcGISBulkRehearsalPolicy: the retry is exercised behind the checkpoint.
ASSUME RehearsalConstants ==
  /\ PageSize \in Nat \ {0} /\ CheckpointAfter \in Nat \ {0}
  /\ InjectAt \in Nat /\ InjectAt >= CheckpointAfter
  /\ MaxAttempts \in 2 .. 5

VARIABLES
  run,    \* the rehearsal in progress
  started, \* how many rehearsals
  disk,   \* retained responses, named by index, kind and digest; a count's
          \* body is <<count>>, a page's its object IDs
  done,   \* executions completed
  proof,  \* the proof bundle at the output path, or Nil
  alarms  \* what refused data-checking rehearsals were: "steady" or "moved"

rehearsalVars == <<probeVars, run, started, disk, done, proof, alarms>>

NoRun ==
  [at |-> "idle", snapshot |-> Nil, start |-> 0, pages |-> <<>>, attempt |-> 1,
   failure |-> Nil, retried |-> {}, checkpoint |-> <<>>,
   before |-> {}, throughout |-> {}, deleted |-> {}]

Rehearsal ==
  [at : {"idle", "page", "checkpoint", "count"}, snapshot : Snapshots \cup {Nil},
   start : Nat, pages : Seq(Seq(Nat)), attempt : 1 .. MaxAttempts,
   failure : FailureKinds \cup {"injected", Nil}, retried : SUBSET Nat,
   checkpoint : Seq(Seq(Nat)),
   before : SUBSET Nat, throughout : SUBSET Nat, deleted : SUBSET Nat]

Artifact(index, kind, body) == [index |-> index, kind |-> kind, body |-> body]
Retained(index, kind, body) == disk' = disk \cup {Artifact(index, kind, body)}

PagesFor(count) == (count + PageSize - 1) \div PageSize

Observed == FlattenSeq(run.pages)

Ends == run' = NoRun

\* A check on what the layer answered fails.
Refuse ==
  /\ Ends
  /\ alarms' = alarms \cup
       {IF run.throughout = run.before /\ live = run.before THEN "steady" ELSE "moved"}

\* The first count; the policy has to leave a page after the checkpoint and
\* the injected failure.
StartRehearsal(s) ==
  LET count == Cardinality(live) IN
  /\ run.at = "idle" /\ started < work.rehearsals /\ ready[s] /\ count > 0
  /\ started' = started + 1
  /\ Retained(0, "starting_count", <<count>>)
  /\ run' = IF PagesFor(count) < 2 \/ CheckpointAfter >= PagesFor(count)
                 \/ InjectAt >= PagesFor(count)
            THEN NoRun
            ELSE [NoRun EXCEPT !.at = "page", !.snapshot = s, !.start = count,
                               !.before = live, !.throughout = live]
  /\ UNCHANGED <<probeVars, done, proof, alarms>>

Injected == Len(run.pages) = InjectAt /\ run.attempt = 1

\* One attempt at a page fails in a way that may be retried.
FailAttempt(kind) ==
  /\ run.at = "page"
  /\ (kind = "injected") = Injected
  /\ run' = IF run.attempt = MaxAttempts \/ run.failure \notin {Nil, kind}
            THEN NoRun
            ELSE [run EXCEPT !.attempt = @ + 1, !.failure = kind]
  /\ UNCHANGED <<probeVars, started, disk, done, proof, alarms>>

InSequence(ids) == Observed # <<>> => ids[1] > Last(Observed)

\* Neither more than was counted, nor short before the count is reached.
Full(ids) ==
  /\ Len(Observed) + Len(ids) <= run.start
  /\ Len(ids) < PageSize => Len(Observed) + Len(ids) = run.start

After(pages) ==
  CASE Len(pages) = CheckpointAfter -> "checkpoint"
    [] Len(pages) = PagesFor(run.start) -> "count"
    [] OTHER -> "page"

\* A page arrives and is checked, retained, and entered with its attempts.
ReadPage ==
  LET ids == Page(live, Len(run.pages) * PageSize, PageSize) IN
  /\ run.at = "page" /\ ~Injected
  /\ IF ids # <<>> /\ InSequence(ids) /\ Full(ids)
     THEN /\ Retained(Len(run.pages) + 1, "page", ids)
          /\ run' = [run EXCEPT
               !.pages = Append(@, ids), !.attempt = 1, !.failure = Nil,
               !.retried = IF run.attempt > 1 THEN @ \cup {Len(run.pages)} ELSE @,
               !.at = After(Append(run.pages, ids))]
          /\ UNCHANGED alarms
     ELSE Refuse /\ UNCHANGED disk
  /\ UNCHANGED <<probeVars, started, done, proof>>

\* The prefix is saved, reloaded and compared; reading resumes behind it.
Checkpoint ==
  /\ run.at = "checkpoint"
  /\ run' = [run EXCEPT !.at = "page", !.checkpoint = run.pages]
  /\ UNCHANGED <<probeVars, started, disk, done, proof, alarms>>

\* The count taken before the pages is the only one looked at.
ReconciledSlip(count) == Len(Observed) = run.start

\* Counted, retrieved, counted: all the same; the retry was exercised.
Reconciled(count) ==
  /\ Len(Observed) = run.start /\ count = run.start
  /\ InjectAt \in run.retried

Execution ==
  [snapshot |-> run.snapshot, start |-> run.start, pages |-> run.pages,
   retried |-> run.retried, checkpoint |-> run.checkpoint,
   throughout |-> run.throughout, deleted |-> run.deleted]

Executions ==
  [snapshot : Snapshots, start : Nat, pages : Seq(Seq(Nat)), retried : SUBSET Nat,
   checkpoint : Seq(Seq(Nat)), throughout : SUBSET Nat, deleted : SUBSET Nat]

Assessments ==
  [snapshot : Snapshots, size : Nat \ {0}, observations : SUBSET (Probes \X (1 .. Len(Kinds))),
   manifest : Executions \cup {Nil},
   status : {"blocked", "metadata_only", "bounded_query_verified",
             "bulk_rehearsal_verified"}]

\* The second count, the reconciliation and the manifest.
Finish ==
  LET count == Cardinality(live) IN
  /\ run.at = "count" /\ count > 0
  /\ Retained(Len(run.pages) + 1, "ending_count", <<count>>)
  /\ IF Reconciled(count)
     THEN Ends /\ done' = done \cup {Execution} /\ UNCHANGED alarms
     ELSE Refuse /\ UNCHANGED done
  /\ UNCHANGED <<probeVars, started, proof>>

\* A response or a file that is beyond retry, or the process dies.
Break ==
  /\ run.at # "idle" /\ Ends
  /\ UNCHANGED <<probeVars, started, disk, done, proof, alarms>>
-----------------------------------------------------------------------------
\* What the receipts of an execution name.
Receipts(e) ==
  {Artifact(0, "starting_count", <<e.start>>),
   Artifact(Len(e.pages) + 1, "ending_count", <<e.start>>)}
    \cup {Artifact(i, "page", e.pages[i]) : i \in DOMAIN e.pages}

\* Built from the bytes read back, saved under its own identity: the path may
\* already hold exactly this bundle, and no other.
SaveProof(e) ==
  /\ e \in done /\ Receipts(e) \subseteq disk
  /\ proof = Nil /\ proof' = e
  /\ UNCHANGED <<probeVars, run, started, disk, done, alarms>>

Counted(e) == \E o \in rows.observations :
  probe[o[1]].snapshot = e.snapshot /\ Reconciles(e, {o})

StoreManifest(e) ==
  /\ e \in done \ rows.manifests /\ Counted(e)
  /\ rows' = [rows EXCEPT !.manifests = @ \cup {e}]
  /\ UNCHANGED <<work, live, edits, ready, probe, run, started, disk, done, proof, alarms>>

\* The owner removes a record, or adds one.
Edit(id) ==
  /\ EditedTo(IF id \in live THEN live \ {id} ELSE live \cup {id})
  /\ run' = IF run.at = "idle" THEN run
            ELSE [run EXCEPT !.throughout = @ \ {id},
                             !.deleted = IF id \in live THEN @ \cup {id} ELSE @]
  /\ UNCHANGED <<started, disk, done, proof, alarms>>

RehearsalInit ==
  /\ ProbeInit
  /\ run = NoRun /\ started = 0
  /\ disk = {} /\ done = {} /\ proof = Nil /\ alarms = {}

RehearsalNext ==
  \/ ProbeNext /\ UNCHANGED <<run, started, disk, done, proof, alarms>>
  \/ \E s \in Snapshots : StartRehearsal(s)
  \/ \E k \in FailureKinds \cup {"injected"} : FailAttempt(k)
  \/ ReadPage \/ Checkpoint \/ Finish \/ Break
  \/ \E e \in done : SaveProof(e) \/ StoreManifest(e)
  \/ \E id \in work.ids : Edit(id)

RehearsalSpec == RehearsalInit /\ [][RehearsalNext]_rehearsalVars
-----------------------------------------------------------------------------
RehearsalTypeOK ==
  /\ work \in Workloads /\ live \subseteq work.ids /\ edits \in 0 .. work.edits
  /\ ready \in [Snapshots -> BOOLEAN]
  /\ probe \in [Probes -> Probe \cup {Nil}]
  /\ \A p \in Probes : probe[p] # Nil => Len(probe[p].answers) <= Len(Kinds)
  /\ rows \in [observations : SUBSET (Probes \X (1 .. Len(Kinds))),
               manifests : SUBSET done, assessments : SUBSET Assessments]
  /\ run \in Rehearsal /\ started \in 0 .. work.rehearsals
  /\ done \subseteq Executions /\ proof \in done \cup {Nil}
  /\ alarms \subseteq {"steady", "moved"}

\* A layer nobody edits passes: a probe over which nothing moved is blocked
\* only if the metadata is wanting, whatever the count - none, less than a
\* sample, exactly one or two, more - and no rehearsal's check refuses its data
\* (_page_sequence_is_valid, _fetch_page_with_retry).
SteadyLayersPass ==
  /\ \A p \in Probes : Complete(p) /\ probe[p].steady /\ ready[probe[p].snapshot] =>
       Assessment(probe[p].snapshot, probe[p].size, {p} \X (1 .. Len(Kinds)), Nil).status
         = "bounded_query_verified"
  /\ "steady" \notin alarms

\* What a reconciled rehearsal may have missed: of the records there all the
\* time no more than were deleted meanwhile, so none if none was; and it lists
\* no record twice.
ListMissesOnlyDeleted ==
  \A e \in done :
    LET ids == FlattenSeq(e.pages) IN
    /\ Cardinality(e.throughout \ ToSet(ids)) <= Cardinality(e.deleted)
    /\ IsInjective(ids)

\* "Contradictory observations become blocked; they are never averaged or
\* silently discarded": of two stored assessments of one plan that rest on all
\* four answers, one is not blocked and the other clean, whatever was probed
\* again, by this plan or by one of another sample size that shares the count.
VerdictIsFinal ==
  \A a, b \in rows.assessments :
    /\ a.snapshot = b.snapshot /\ a.size = b.size
    /\ Cardinality(a.observations) = Len(Kinds)
    /\ Cardinality(b.observations) = Len(Kinds)
    => (a.status = "blocked") = (b.status = "blocked")

\* A layer is called verified only where the four stored answers of a plan agree
\* with each other and with a completed rehearsal of the same snapshot, which
\* counted what the stored probe had counted.
VerifiedIsReconciled ==
  \A a \in rows.assessments : a.status = "bulk_rehearsal_verified" =>
    /\ a.manifest \in done /\ a.manifest.snapshot = a.snapshot
    /\ ready[a.snapshot] /\ Cardinality(a.observations) = Len(Kinds)
    /\ \A o \in a.observations : o[2] = 1 =>
         AnswerTo(o).count = Cardinality(ToSet(FlattenSeq(a.manifest.pages)))
=============================================================================
