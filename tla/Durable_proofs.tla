--------------------------- MODULE Durable_proofs ---------------------------
(***************************************************************************)
(* Safety of the three parts whose evidence has to last: what was written   *)
(* and synced, what was swept into a journal, what a live layer answered.   *)
(*                                                                          *)
(* RuntimeArtifact, for any publishers, names, contents and number of       *)
(* files.  Its three properties are not inductive: that a power loss harms  *)
(* no reported file follows from how what is kept on disk lags behind what  *)
(* the directory shows, which is the invariant.                             *)
(*                                                                          *)
(* SmartsRoster, for any facilities, rosters, pages and processes.  The     *)
(* journal stays sound because a row joins the source its identifiers are   *)
(* bound to, and the last version of a source is the row of its newest      *)
(* observation; the checkpoint stays behind the journal because a process   *)
(* that is to advance holds a receipt whose observation is committed.       *)
(*                                                                          *)
(* ParcelRehearsal, for any records, sample and page sizes, and retry       *)
(* policy.  Stored answers never change, so what rests on them stays.  A    *)
(* rehearsal has read full pages in order, hence no record twice, and each  *)
(* record it has read is there or was deleted meanwhile; with the counts    *)
(* equal in the end, a record it missed was made room for by one deleted.   *)
(* Of the records there all the time no more are in front of its place than *)
(* it has read, so over a layer nobody edits the next page is behind it.    *)
(***************************************************************************)
EXTENDS RuntimeArtifact, SmartsRoster, ParcelRehearsal, FiniteSetTheorems, WellFoundedInduction, TLAPS

(* Published files.                                                        *)

\* A file that a power loss leaves as it is.
Whole(f) == f = Nothing \/ (f.synced /\ f.content \in Contents)

\* What is kept lags behind what is shown: it is the same file or an older one;
\* under a create-only name it is the same or nothing.
Lags(n) ==
  /\ Whole(entry[n]) /\ Whole(kept[n])
  /\ entry[n] # Nothing => entry[n].number <= files
  /\ kept[n] # Nothing =>
       /\ entry[n] # Nothing /\ kept[n].number <= entry[n].number
       /\ kept[n].number = entry[n].number => kept[n] = entry[n]
  /\ n \in CreateOnly => kept[n] = Nothing \/ kept[n] = entry[n]

DiskLags == \A n \in Names : Lags(n)

\* What a publisher holds at each stage.
Holds(p) ==
  LET j == job[p] IN
  /\ j.at # "idle" => j.name \in Names /\ j.content \in Contents
  /\ j.at = "entered" => j.file \in File /\ j.file.content = j.content
  /\ j.at \in {"exists", "reading"} => j.name \in CreateOnly /\ entry[j.name] # Nothing
  /\ j.at = "reading" => j.file \in File

JobsHold == \A p \in Publishers : Holds(p)

\* A report made in a durable directory is on disk, or superseded there.
OnDisk(t) ==
  /\ dir = "durable"
  /\ kept[t.name] # Nothing /\ kept[t.name].number >= t.number
  /\ kept[t.name].number = t.number => kept[t.name].content = t.content
  /\ t.name \in CreateOnly => kept[t.name].number = t.number

ReportsOnDisk == \A t \in told : t.anchored => OnDisk(t)

\* PublicationInv: PublicationTypeOK and the three parts above.
PublicationInv == PublicationTypeOK /\ DiskLags /\ JobsHold /\ ReportsOnDisk

\* A publisher's record.
Job == [at : Stages, name : Names \cup {Nothing}, content : Contents \cup {Nothing},
        file : File \cup {Nothing}]

-----------------------------------------------------------------------------
\* A file that was synced survives a power loss unchanged.
LEMMA WholeSurvives ==
  ASSUME NEW f, Whole(f)
  PROVE  Survived(f) = f
BY DEF Whole, Survived

\* A publisher that goes on with a file in hand keeps the type of its record.
LEMMA JobMoved ==
  ASSUME NEW p \in Publishers, NEW stage \in Stages, NEW f \in File \cup {Nothing},
         job \in [Publishers -> Job]
  PROVE  [job EXCEPT ![p] = [@ EXCEPT !.at = stage, !.file = f]] \in [Publishers -> Job]
<1>1. [job[p] EXCEPT !.at = stage, !.file = f] \in Job
  BY DEF Job
<1>2. QED
  BY <1>1

\* The invariant holds initially.
LEMMA InitInv == PublicationInit => PublicationInv
<1>1. SUFFICES ASSUME PublicationInit PROVE PublicationInv
  OBVIOUS
<1>2. PublicationTypeOK
  BY <1>1, PublicationAssumption DEF PublicationInit, PublicationTypeOK, Idle, Stages
<1>3. DiskLags
  BY <1>1 DEF PublicationInit, DiskLags, Lags, Whole
<1>4. JobsHold
  BY <1>1 DEF PublicationInit, JobsHold, Holds, Idle
<1>5. ReportsOnDisk
  BY <1>1 DEF PublicationInit, ReportsOnDisk
<1>6. QED
  BY <1>2, <1>3, <1>4, <1>5 DEF PublicationInv

-----------------------------------------------------------------------------
\* Every step keeps the types.
LEMMA TypeStep == PublicationInv /\ [PublicationNext]_publicationVars => PublicationTypeOK'
<1>1. SUFFICES ASSUME PublicationInv, [PublicationNext]_publicationVars PROVE PublicationTypeOK'
  OBVIOUS
<1> USE <1>1, PublicationAssumption DEF PublicationInv, PublicationTypeOK
<1>2. ASSUME NEW p \in Publishers, NEW n \in Names, NEW c \in Contents, Begin(p, n, c)
      PROVE  PublicationTypeOK'
  BY <1>2 DEF Begin, Stages
<1>3. ASSUME NEW p \in Publishers, SyncParent(p) PROVE PublicationTypeOK'
  BY <1>3 DEF SyncParent, Goto, Stages
<1>4. ASSUME NEW p \in Publishers, Write(p) PROVE PublicationTypeOK'
  BY <1>4 DEF Write, Goto, Stages
<1>5. ASSUME NEW p \in Publishers, SyncContent(p) PROVE PublicationTypeOK'
  BY <1>5 DEF SyncContent, Goto, Stages
<1>6. ASSUME NEW p \in Publishers, Enter(p) PROVE PublicationTypeOK'
  <2>1. job[p].name \in Names /\ job[p].content \in Contents
    BY <1>6 DEF Enter, JobsHold, Holds
  <2>2. Staged(p) \in File /\ files' \in 0 .. MaxFiles
    BY <1>6, <2>1 DEF Enter, Staged, File
  <2>3. job' \in [Publishers -> Job]
    BY <1>6, <2>2, JobMoved DEF Enter, Stages, Job
  <2>4. entry' \in [Names -> File \cup {Nothing}]
    BY <1>6, <2>1, <2>2 DEF Enter
  <2>5. QED
    BY <1>6, <2>2, <2>3, <2>4 DEF Enter, Job
<1>7. ASSUME NEW p \in Publishers, Collide(p) PROVE PublicationTypeOK'
  BY <1>7 DEF Collide, Goto, Stages
<1>8. ASSUME NEW p \in Publishers, Reopen(p) PROVE PublicationTypeOK'
  <2>1. entry[job[p].name] \in File \cup {Nothing}
    BY <1>8 DEF Reopen, JobsHold, Holds, Names
  <2>2. job' \in [Publishers -> Job]
    BY <1>8, <2>1, JobMoved DEF Reopen, Stages, Job
  <2>3. QED
    BY <1>8, <2>2 DEF Reopen, Job
<1>9. ASSUME NEW p \in Publishers, Settle(p) PROVE PublicationTypeOK'
  <2>1. /\ job[p].name \in Names /\ job[p].content \in Contents
        /\ job[p].file \in File
    BY <1>9 DEF Settle, JobsHold, Holds
  <2>2. job[p].file.number \in 1 .. MaxFiles
    BY <2>1 DEF File
  <2>3. told' \subseteq [name : Names, content : Contents, number : 1 .. MaxFiles,
                         anchored : BOOLEAN]
    <3>1. [name |-> job[p].name, content |-> job[p].content, number |-> job[p].file.number,
           anchored |-> dir = "durable"]
            \in [name : Names, content : Contents, number : 1 .. MaxFiles, anchored : BOOLEAN]
      BY <2>1, <2>2
    <3>2. QED
      BY <1>9, <3>1 DEF Settle, Tell
  <2>4. QED
    BY <1>9, <2>3 DEF Settle, SyncDirectory, Idle, Stages
<1>10. ASSUME NEW p \in Publishers, Confirm(p) PROVE PublicationTypeOK'
  <2>1. /\ job[p].name \in Names /\ job[p].content \in Contents
        /\ job[p].file \in File
    BY <1>10 DEF Confirm, JobsHold, Holds
  <2>2. job[p].file.number \in 1 .. MaxFiles
    BY <2>1 DEF File
  <2>3. told' \subseteq [name : Names, content : Contents, number : 1 .. MaxFiles,
                         anchored : BOOLEAN]
    <3>1. [name |-> job[p].name, content |-> job[p].content, number |-> job[p].file.number,
           anchored |-> dir = "durable"]
            \in [name : Names, content : Contents, number : 1 .. MaxFiles, anchored : BOOLEAN]
      BY <2>1, <2>2
    <3>2. QED
      BY <1>10, <3>1 DEF Confirm, Tell
  <2>4. QED
    BY <1>10, <2>3 DEF Confirm, SyncDirectory, Idle, Stages
<1>11. ASSUME NEW p \in Publishers, Abandon(p) PROVE PublicationTypeOK'
  BY <1>11 DEF Abandon, Idle, Stages
<1>12. CASE PowerLoss
  <2>1. entry' \in [Names -> File \cup {Nothing}]
    BY <1>12, WholeSurvives DEF PowerLoss, DiskLags, Lags
  <2>2. QED
    BY <1>12, <2>1 DEF PowerLoss, Idle, Stages
<1>13. CASE UNCHANGED publicationVars
  BY <1>13 DEF publicationVars
<1>14. QED
  BY <1>2, <1>3, <1>4, <1>5, <1>6, <1>7, <1>8, <1>9, <1>10, <1>11, <1>12, <1>13 DEF PublicationNext

-----------------------------------------------------------------------------
\* What a step does to the disk: nothing, a name entered, the directory synced, or
\* a power loss.
LEMMA DiskCases ==
  ASSUME [PublicationNext]_publicationVars
  PROVE  \/ UNCHANGED <<entry, kept, files>>
         \/ \E p \in Publishers : Enter(p)
         \/ kept' = entry /\ UNCHANGED <<entry, files>>
         \/ PowerLoss
BY DEF PublicationNext, publicationVars, Begin, SyncParent, Write, SyncContent, Enter,
       Collide, Reopen, Settle, Confirm, Abandon, Goto, SyncDirectory

\* Every step keeps the disk behind the directory, and whole.
LEMMA DiskStep == PublicationInv /\ [PublicationNext]_publicationVars => DiskLags'
<1>1. SUFFICES ASSUME PublicationInv, [PublicationNext]_publicationVars PROVE DiskLags'
  OBVIOUS
<1> USE <1>1, PublicationAssumption DEF PublicationInv
<1>2. CASE UNCHANGED <<entry, kept, files>>
  BY <1>2 DEF DiskLags, Lags, Whole
<1>3. ASSUME NEW p \in Publishers, Enter(p) PROVE DiskLags'
  <2>1. PICK n \in Names : n = job[p].name /\ job[p].content \in Contents
    BY <1>3 DEF Enter, JobsHold, Holds
  <2>2. /\ entry' = [entry EXCEPT ![n] = Staged(p)]
        /\ kept' = kept /\ files' = files + 1
        /\ Staged(p) \in File /\ Staged(p).number = files + 1
        /\ Staged(p).synced /\ Staged(p).content \in Contents
        /\ Staged(p) # Nothing => Whole(Staged(p))
    BY <1>3, <2>1 DEF Enter, Staged, File, PublicationTypeOK, Whole
  <2>3. Lags(n)'
    <3>1. Lags(n)
      BY <2>1 DEF DiskLags
    <3>2. kept'[n] = kept[n] /\ entry'[n] = Staged(p)
      BY <2>1, <2>2 DEF PublicationTypeOK
    <3>3. kept[n] # Nothing => kept[n].number \in Nat /\ kept[n].number <= files
      BY <2>1, <3>1 DEF Lags, PublicationTypeOK, File
    <3>4. n \in CreateOnly => kept[n] = Nothing
      BY <1>3, <2>1, <3>1 DEF Lags, Enter, Taken
    <3>5. files \in Nat
      BY DEF PublicationTypeOK
    <3>6. Staged(p) # Nothing
      BY <2>2, NothingIsNoFile
    <3>7. QED
      BY <2>2, <3>1, <3>2, <3>3, <3>4, <3>5, <3>6 DEF Lags, Whole
  <2>4. ASSUME NEW m \in Names, m # n PROVE Lags(m)'
    <3>1. kept'[m] = kept[m] /\ entry'[m] = entry[m] /\ Lags(m)
      BY <2>1, <2>2, <2>4 DEF DiskLags, PublicationTypeOK
    <3>2. files \in Nat /\ (entry[m] # Nothing => entry[m].number \in Nat)
      BY DEF PublicationTypeOK, File
    <3>3. QED
      BY <2>2, <3>1, <3>2 DEF Lags, Whole
  <2>5. QED
    <3>1. \A m \in Names : Lags(m)'
      BY <2>3, <2>4
    <3>2. QED
      BY <3>1 DEF DiskLags
<1>4. CASE kept' = entry /\ UNCHANGED <<entry, files>>
  BY <1>4 DEF DiskLags, Lags, Whole, PublicationTypeOK, File
<1>5. CASE PowerLoss
  <2>1. SUFFICES ASSUME NEW n \in Names PROVE Lags(n)'
    BY DEF DiskLags
  <2>2. entry'[n] \in {entry[n], kept[n], Nothing}
    BY <1>5, WholeSurvives DEF PowerLoss, DiskLags, Lags
  <2>3. kept'[n] = entry'[n] /\ files' = files
    BY <1>5 DEF PowerLoss
  <2>4. Lags(n) /\ entry[n] \in File \cup {Nothing} /\ kept[n] \in File \cup {Nothing}
    BY DEF DiskLags, PublicationTypeOK
  <2>5. QED
    BY <2>2, <2>3, <2>4 DEF Lags, Whole, File, PublicationTypeOK
<1>6. QED
  BY <1>2, <1>3, <1>4, <1>5, DiskCases

-----------------------------------------------------------------------------
\* Every step leaves the publishers with what their stages need.
LEMMA JobStep == PublicationInv /\ [PublicationNext]_publicationVars => JobsHold'
<1>1. SUFFICES ASSUME PublicationInv, [PublicationNext]_publicationVars PROVE JobsHold'
  OBVIOUS
<1>2. SUFFICES ASSUME NEW q \in Publishers PROVE Holds(q)'
  BY DEF JobsHold
<1> USE <1>1, PublicationAssumption DEF PublicationInv
<1>3. Holds(q) /\ job \in [Publishers -> Job]
  BY DEF JobsHold, PublicationTypeOK, Job
<1>4. ASSUME \A n \in CreateOnly : entry[n] # Nothing => entry'[n] # Nothing,
             \/ job'[q] = job[q] \/ job'[q] = Idle
             \/ \E stage \in {"staging", "written", "synced"} :
                   job[q].at # "idle" /\ job'[q] = [job[q] EXCEPT !.at = stage]
      PROVE  Holds(q)'
  BY <1>3, <1>4 DEF Holds, Idle, Job
<1>5. ASSUME NEW p \in Publishers, NEW n \in Names, NEW c \in Contents, Begin(p, n, c)
      PROVE  Holds(q)'
  <2>1. CASE p = q
    BY <1>3, <1>5, <2>1 DEF Begin, Holds
  <2>2. CASE p # q
    BY <1>3, <1>4, <1>5, <2>2 DEF Begin
  <2>3. QED
    BY <2>1, <2>2
<1>6. ASSUME NEW p \in Publishers, SyncParent(p) \/ Write(p) \/ SyncContent(p)
      PROVE  Holds(q)'
  BY <1>3, <1>4, <1>6 DEF SyncParent, Write, SyncContent, Goto
<1>7. ASSUME NEW p \in Publishers, Enter(p) PROVE Holds(q)'
  <2>1. /\ job[p].name \in Names /\ job[p].content \in Contents
        /\ Staged(p) \in File /\ Staged(p).content = job[p].content
    BY <1>7 DEF Enter, JobsHold, Holds, Staged, File, PublicationTypeOK
  <2>2. \A n \in CreateOnly : entry[n] # Nothing => entry'[n] # Nothing
    BY <1>7, <2>1, NothingIsNoFile DEF Enter, PublicationTypeOK, Names
  <2>3. CASE p = q
    <3>1. job'[q] = [job[q] EXCEPT !.at = "entered", !.file = Staged(q)]
      BY <1>3, <1>7, <2>3 DEF Enter
    <3>2. /\ job'[q].at = "entered" /\ job'[q].file = Staged(q)
          /\ job'[q].name = job[q].name /\ job'[q].content = job[q].content
      BY <1>3, <3>1 DEF Job
    <3>3. QED
      BY <2>1, <2>3, <3>2 DEF Holds
  <2>4. CASE p # q
    BY <1>3, <1>4, <1>7, <2>2, <2>4 DEF Enter
  <2>5. QED
    BY <2>3, <2>4
<1>8. ASSUME NEW p \in Publishers, Collide(p) PROVE Holds(q)'
  <2>1. CASE p = q
    BY <1>3, <1>8, <2>1 DEF Collide, Goto, Taken, Holds, Job
  <2>2. CASE p # q
    BY <1>3, <1>4, <1>8, <2>2 DEF Collide, Goto
  <2>3. QED
    BY <2>1, <2>2
<1>9. ASSUME NEW p \in Publishers, Reopen(p) PROVE Holds(q)'
  <2>1. CASE p = q
    <3>1. job'[q] = [job[q] EXCEPT !.at = "reading", !.file = entry[job[q].name]]
      BY <1>3, <1>9, <2>1 DEF Reopen
    <3>2. /\ job'[q].at = "reading" /\ job'[q].file = entry[job[q].name]
          /\ job'[q].name = job[q].name /\ job'[q].content = job[q].content
      BY <1>3, <3>1 DEF Job
    <3>3. entry[job[q].name] \in File
      BY <1>3, <1>9, <2>1 DEF Reopen, Holds, PublicationTypeOK
    <3>4. QED
      BY <1>3, <1>9, <2>1, <3>2, <3>3 DEF Reopen, Holds
  <2>2. CASE p # q
    BY <1>3, <1>4, <1>9, <2>2 DEF Reopen
  <2>3. QED
    BY <2>1, <2>2
<1>10. ASSUME NEW p \in Publishers, Settle(p) \/ Confirm(p) \/ Abandon(p)
       PROVE  Holds(q)'
  BY <1>3, <1>4, <1>10 DEF Settle, Confirm, Abandon
<1>11. CASE PowerLoss
  BY <1>11 DEF PowerLoss, Holds, Idle
<1>12. CASE UNCHANGED publicationVars
  BY <1>4, <1>12 DEF publicationVars
<1>13. QED
  BY <1>5, <1>6, <1>7, <1>8, <1>9, <1>10, <1>11, <1>12 DEF PublicationNext

-----------------------------------------------------------------------------
\* Every step keeps what was reported in a durable directory on disk.
LEMMA ReportStep == PublicationInv /\ [PublicationNext]_publicationVars => ReportsOnDisk'
<1>1. SUFFICES ASSUME PublicationInv, [PublicationNext]_publicationVars PROVE ReportsOnDisk'
  OBVIOUS
<1>2. SUFFICES ASSUME NEW t \in told', t.anchored PROVE OnDisk(t)'
  BY DEF ReportsOnDisk
<1> USE <1>1, PublicationAssumption DEF PublicationInv
<1>3. CASE UNCHANGED <<told, kept>> /\ (dir = "durable" => dir' = "durable")
  BY <1>2, <1>3 DEF ReportsOnDisk, OnDisk
<1>4. ASSUME kept' = entry, t \in told, UNCHANGED dir PROVE OnDisk(t)'
  <2>1. t.name \in Names /\ t.number \in Nat /\ OnDisk(t) /\ Lags(t.name)
    BY <1>2, <1>4 DEF ReportsOnDisk, PublicationTypeOK, DiskLags
  <2>2. kept[t.name] \in File \cup {Nothing} /\ entry[t.name] \in File \cup {Nothing}
    BY <2>1 DEF PublicationTypeOK
  <2>3. QED
    BY <1>4, <2>1, <2>2 DEF OnDisk, Lags, File
<1>5. ASSUME NEW p \in Publishers, kept' = entry, UNCHANGED dir, Tell(p), SameEntry(p),
             job[p].at \in {"entered", "reading"}, job[p].file.content = job[p].content
      PROVE  OnDisk(t)'
  <2>1. CASE t \in told
    BY <1>4, <1>5, <2>1
  <2>2. CASE t = [name |-> job[p].name, content |-> job[p].content,
                  number |-> job[p].file.number, anchored |-> dir = "durable"]
    <3>1. job[p].file \in File /\ job[p].name \in Names
      BY <1>5 DEF JobsHold, Holds
    <3>2. dir' = "durable" /\ t.name = job[p].name /\ kept'[t.name] = job[p].file
      BY <1>2, <1>5, <2>2 DEF SameEntry
    <3>3. kept'[t.name] # Nothing /\ job[p].file.number \in Nat
      BY <3>1, <3>2, NothingIsNoFile DEF File
    <3>4. t.number = job[p].file.number /\ t.content = job[p].content
      BY <2>2
    <3>5. QED
      BY <1>5, <3>2, <3>3, <3>4 DEF OnDisk
  <2>3. QED
    BY <1>2, <1>5, <2>1, <2>2 DEF Tell
<1>6. ASSUME NEW p \in Publishers, Settle(p) PROVE OnDisk(t)'
  BY <1>5, <1>6 DEF Settle, SyncDirectory, JobsHold, Holds
<1>7. ASSUME NEW p \in Publishers, Confirm(p) PROVE OnDisk(t)'
  BY <1>2, <1>4, <1>5, <1>7 DEF Confirm, SyncDirectory
<1>8. CASE PowerLoss
  <2>1. t \in told /\ t.name \in Names /\ t.number \in Nat /\ OnDisk(t) /\ Lags(t.name)
    BY <1>2, <1>8 DEF PowerLoss, ReportsOnDisk, PublicationTypeOK, DiskLags
  <2>2. kept'[t.name] \in {entry[t.name], kept[t.name]} /\ dir' = dir
    BY <1>2, <1>8, <2>1, WholeSurvives DEF PowerLoss, OnDisk, Lags
  <2>3. kept[t.name] \in File \cup {Nothing} /\ entry[t.name] \in File \cup {Nothing}
    BY <2>1 DEF PublicationTypeOK
  <2>4. QED
    BY <1>2, <2>1, <2>2, <2>3 DEF OnDisk, Lags, File
<1>9. CASE UNCHANGED publicationVars
  BY <1>3, <1>9 DEF publicationVars
<1>10. ASSUME NEW p \in Publishers,
              \/ \E n \in Names, c \in Contents : Begin(p, n, c)
              \/ SyncParent(p) \/ Write(p) \/ SyncContent(p) \/ Enter(p)
              \/ Collide(p) \/ Reopen(p) \/ Abandon(p)
       PROVE  OnDisk(t)'
  BY <1>3, <1>10 DEF Begin, SyncParent, Write, SyncContent, Enter, Collide, Reopen, Abandon
<1>11. QED
  BY <1>6, <1>7, <1>8, <1>9, <1>10 DEF PublicationNext

-----------------------------------------------------------------------------
\* The invariant of every behaviour.
THEOREM PublicationInductive == PublicationSpec => []PublicationInv
<1>1. PublicationInv /\ [PublicationNext]_publicationVars => PublicationInv'
  BY TypeStep, DiskStep, JobStep, ReportStep DEF PublicationInv
<1>2. QED
  BY <1>1, InitInv, PTL DEF PublicationSpec

\* Every variable keeps its type, for any number of publishers and files.
THEOREM PublicationTypeCorrect == PublicationSpec => []PublicationTypeOK
<1>1. PublicationInv => PublicationTypeOK
  BY DEF PublicationInv
<1>2. QED
  BY <1>1, PublicationInductive, PTL

\* A name never denotes part of a file, whoever dies and whenever power is lost.
THEOREM NamesStayWhole == PublicationSpec => []NamesAreWhole
<1>1. PublicationInv => NamesAreWhole
  BY PublicationAssumption DEF PublicationInv, DiskLags, Lags, Whole, NamesAreWhole
<1>2. QED
  BY <1>1, PublicationInductive, PTL

\* A publication reported in a durable directory is there from then on, or superseded.
THEOREM ReportsAreKept == PublicationSpec => []ToldIsKept
<1>1. ASSUME PublicationInv PROVE ToldIsKept
  <2>1. SUFFICES ASSUME NEW t \in told, t.anchored
                 PROVE  LET f == entry[t.name] IN
                        /\ f # Nothing /\ f.number >= t.number
                        /\ f.number = t.number => f.content = t.content
                        /\ t.name \in CreateOnly => f.number = t.number
    BY DEF ToldIsKept
  <2>2. OnDisk(t) /\ Lags(t.name) /\ t.name \in Names /\ t.number \in Nat
    BY <1>1, <2>1 DEF PublicationInv, ReportsOnDisk, DiskLags, PublicationTypeOK
  <2>3. kept[t.name] \in File \cup {Nothing} /\ entry[t.name] \in File \cup {Nothing}
    BY <1>1, <2>2 DEF PublicationInv, PublicationTypeOK
  <2>4. QED
    BY <2>1, <2>2, <2>3 DEF OnDisk, Lags, File
<1>2. QED
  BY <1>1, PublicationInductive, PTL

\* A create-only name never comes to denote another file, and loses the one it has only
\* if nobody was told of it in a durable directory.
THEOREM CreateOnlyStays == PublicationSpec => CreateOnlyIsFinal
<1> DEFINE Stays ==
      \A n \in CreateOnly :
        entry[n] # Nothing /\ entry'[n] # entry[n] =>
          entry'[n] = Nothing /\ ~ \E t \in told : t.name = n /\ t.anchored
<1>1. PublicationInv /\ [PublicationNext]_publicationVars => Stays
  <2> SUFFICES ASSUME PublicationInv, [PublicationNext]_publicationVars,
                      NEW n \in CreateOnly, entry[n] # Nothing, entry'[n] # entry[n]
               PROVE  entry'[n] = Nothing /\ ~ \E t \in told : t.name = n /\ t.anchored
    OBVIOUS
  <2>1. n \in Names /\ Lags(n)
    BY DEF Names, PublicationInv, DiskLags
  <2>2. ASSUME NEW p \in Publishers, Enter(p) PROVE FALSE
    BY <2>2 DEF Enter, Taken, PublicationInv, PublicationTypeOK
  <2>3. PowerLoss
    BY <2>2, DiskCases
  <2>4. entry'[n] = Nothing /\ (dir # "made" => kept[n] = Nothing)
    BY <2>1, <2>3, WholeSurvives DEF PowerLoss, Lags, PublicationInv, DiskLags
  <2>5. QED
    BY <2>4 DEF PublicationInv, ReportsOnDisk, OnDisk
<1>2. PublicationSpec => [][Stays]_publicationVars
  <2> HIDE DEF Stays
  <2> QED
    BY <1>1, PublicationInductive, PTL DEF PublicationSpec
<1>3. QED
  BY <1>2 DEF CreateOnlyIsFinal

-----------------------------------------------------------------------------
(* The evidence journal and the sweeps.                                    *)

\* A set of numbers that is not empty has a least one.
LEMMA LeastNumber ==
  ASSUME NEW T, T \subseteq Nat, T # {}
  PROVE  \E n \in T : \A m \in T : n <= m
<1> DEFINE R == OpToRel(<, Nat)
<1>1. IsWellFoundedOn(R, Nat)
  BY NatLessThanWellFounded
<1>2. \A m, n \in Nat : <<m, n>> \in R <=> m < n
  BY DEF OpToRel
<1> HIDE DEF R
<1>3. PICK n \in T : \A m \in T : ~ (<<m, n>> \in R)
  BY <1>1, WFMin
<1>4. ASSUME NEW m \in T PROVE n <= m
  <2>1. m \in Nat /\ n \in Nat
    OBVIOUS
  <2>2. ~ (m < n)
    BY <1>2, <1>3, <2>1
  <2>3. QED
    BY <2>1, <2>2
<1>5. QED
  BY <1>4

-----------------------------------------------------------------------------
\* What sources and aliases are named by, and the rows of the two tables.
Key == App \cup Wdid
Observation == [key: Key, row: Row]
Version == [row: Row, observation: Nat]

\* A source has versions once it was observed, and the last of them is the row of its
\* newest observation.
Newest(j, key) ==
  IF j.versions[key] = <<>> THEN \A i \in DOMAIN j.observations : j.observations[i].key # key
  ELSE \E h \in DOMAIN j.observations :
         /\ Precedes(j, key, h, Len(j.observations) + 1)
         /\ j.versions[key][Len(j.versions[key])].row = j.observations[h].row

\* An observation's identifiers are bound to its source.
Bound(j) ==
  \A i \in DOMAIN j.observations : \A a \in Aliases(j.observations[i].row) :
    j.aliases[a] = j.observations[i].key

\* A journal that the verifier accepts, with what keeps it so.
Sound(j) ==
  /\ j \in Journal
  /\ Verifies(j)
  /\ \A key \in Key : Newest(j, key)
  /\ Bound(j)

\* What Append does, by positions.
LEMMA Appended ==
  ASSUME NEW S, NEW s \in Seq(S), NEW e \in S
  PROVE  /\ Append(s, e) \in Seq(S) /\ Append(s, e) # <<>>
         /\ Len(s) \in Nat /\ Len(Append(s, e)) = Len(s) + 1
         /\ DOMAIN s = 1..Len(s) /\ DOMAIN Append(s, e) = 1..Len(s) + 1
         /\ \A i \in 1..Len(s) : Append(s, e)[i] = s[i] /\ s[i] \in S
         /\ Append(s, e)[Len(s) + 1] = e
OBVIOUS

\* The parts of a journal.
LEMMA JournalParts ==
  ASSUME NEW j \in Journal
  PROVE  /\ j = [observations |-> j.observations, versions |-> j.versions, aliases |-> j.aliases]
         /\ j.observations \in Seq(Observation)
         /\ j.versions \in [Key -> Seq(Version)]
         /\ j.aliases \in [Key -> Key \cup {None}]
BY DEF Journal, Key, Observation, Version

\* The identifiers of a row name sources.
LEMMA AliasesTyped ==
  ASSUME NEW row \in Row
  PROVE  /\ Aliases(row) \subseteq Key
         /\ Aliases(row) # {} => SourceKey(row) \in Key
BY JournalConstants DEF Row, Aliases, SourceKey, Key

\* A row's identifiers are bound to two sources at most.
LEMMA MappedFinite ==
  ASSUME NEW j, NEW row
  PROVE  IsFiniteSet(Mapped(j, row))
<1>1. PICK x, y : x = j.aliases[row.app] /\ y = j.aliases[row.wdid]
  OBVIOUS
<1>2. IsFiniteSet({x} \cup {y})
  BY FS_Singleton, FS_AddElement
<1>3. Mapped(j, row) \in SUBSET ({x} \cup {y})
  BY <1>1 DEF Mapped, Aliases
<1>4. QED
  BY <1>2, <1>3, FS_Subset

\* A row without a conflict has one source: the one that all its identifiers are bound
\* to, or a new one if none of them is bound.
LEMMA OneSource ==
  ASSUME NEW j \in Journal, NEW row \in Row, Aliases(row) # {}, ~Conflict(j, row)
  PROVE  /\ Canonical(j, row) \in Key
         /\ \/ \A a \in Aliases(row) : j.aliases[a] = None
            \/ \A a \in Aliases(row) : j.aliases[a] = Canonical(j, row)
<1> DEFINE M == Mapped(j, row)
<1>1. j.aliases \in [Key -> Key \cup {None}] /\ Aliases(row) \subseteq Key /\ None \notin Key
  BY JournalParts, AliasesTyped, JournalConstants DEF Key
<1>2. M \subseteq Key
  BY <1>1 DEF Mapped
<1>3. CASE M = {}
  <2>1. Canonical(j, row) = SourceKey(row)
    BY <1>3 DEF Canonical
  <2>2. \A a \in Aliases(row) : j.aliases[a] = None
    BY <1>3 DEF Mapped
  <2>3. QED
    BY <2>1, <2>2, AliasesTyped
<1>4. CASE M # {}
  <2>1. Cardinality(M) <= 1 /\ \A a \in Aliases(row) : j.aliases[a] # None
    <3>2. Cardinality(M) \in Nat
      BY MappedFinite, FS_CardinalityType
    <3>3. ~(Cardinality(M) > 1)
      BY <1>4 DEF Conflict
    <3>4. QED
      BY <1>4, <3>2, <3>3 DEF Conflict
  <2>2. PICK k \in M : Canonical(j, row) = k
    BY <1>4 DEF Canonical
  <2>3. M = {k}
    <3>1. SUFFICES ASSUME NEW m \in M, m # k PROVE FALSE
      OBVIOUS
    <3>2. IsFiniteSet({k, m}) /\ Cardinality({k, m}) = 2
      <4>1. IsFiniteSet({k}) /\ Cardinality({k}) = 1
        BY FS_Singleton
      <4>2. IsFiniteSet({k} \cup {m}) /\ Cardinality({k} \cup {m}) = 2
        BY <3>1, <4>1, FS_AddElement
      <4>3. {k} \cup {m} = {k, m}
        OBVIOUS
      <4>4. QED
        BY <4>2, <4>3
    <3>3. IsFiniteSet(M)
      BY MappedFinite
    <3>4. Cardinality({k, m}) <= Cardinality(M) /\ Cardinality(M) \in Nat
      <4>1. {k, m} \in SUBSET M
        OBVIOUS
      <4> HIDE DEF M
      <4>2. QED
        BY <3>3, <4>1, FS_Subset, FS_CardinalityType
    <3>5. QED
      BY <2>1, <3>2, <3>4
  <2>4. \A a \in Aliases(row) : j.aliases[a] \in M
    BY <2>1 DEF Mapped
  <2>5. QED
    BY <1>2, <2>2, <2>3, <2>4
<1>5. QED
  BY <1>3, <1>4

-----------------------------------------------------------------------------
\* Journal k is j with one more observation, of a row of the source key.
Grown(j, k, key, row) ==
  /\ k.observations = Append(j.observations, [key |-> key, row |-> row])
  /\ \A q \in Key \ {key} : k.versions[q] = j.versions[q]
  /\ k.versions[key] =
       IF Unchanged(j, key, row) THEN j.versions[key]
       ELSE Append(j.versions[key], [row |-> row, observation |-> Len(j.observations) + 1])
  /\ \A a \in Key : k.aliases[a] = IF a \in Aliases(row) THEN key ELSE j.aliases[a]

\* record_smarts_observation adds one observation.
LEMMA RecordGrows ==
  ASSUME NEW j \in Journal, NEW row \in Row, Aliases(row) # {}, ~Conflict(j, row)
  PROVE  /\ RecordRow(j, row) \in Journal
         /\ Grown(j, RecordRow(j, row), Canonical(j, row), row)
<1>1. PICK key \in Key : Canonical(j, row) = key
  BY OneSource
<1> DEFINE n == Len(j.observations)
           v == IF Unchanged(j, key, row) THEN j.versions[key]
                ELSE Append(j.versions[key], [row |-> row, observation |-> n + 1])
           k == RecordRow(j, row)
<1>2. /\ j.observations \in Seq(Observation)
      /\ j.versions \in [Key -> Seq(Version)]
      /\ j.aliases \in [Key -> Key \cup {None}]
  BY JournalParts
<1>3. /\ k.observations = Append(j.observations, [key |-> key, row |-> row])
      /\ k.versions = [j.versions EXCEPT ![key] = v]
      /\ k.aliases = [a \in Key |-> IF a \in Aliases(row) THEN key ELSE j.aliases[a]]
      /\ k = [observations |-> k.observations, versions |-> k.versions, aliases |-> k.aliases]
  BY <1>1, <1>2 DEF RecordRow
<1>4. n \in Nat /\ [row |-> row, observation |-> n + 1] \in Version
  BY <1>2 DEF Version
<1>5. v \in Seq(Version)
  BY <1>2, <1>4, Appended
<1>6. Append(j.observations, [key |-> key, row |-> row]) \in Seq(Observation)
  BY <1>2 DEF Observation
<1>7. k \in Journal
  <2> HIDE DEF k, v
  <2>1. k.versions \in [Key -> Seq(Version)]
    BY <1>2, <1>3, <1>5
  <2>2. k.aliases \in [Key -> Key \cup {None}]
    BY <1>2, <1>3
  <2>3. QED
    BY <1>3, <1>6, <2>1, <2>2 DEF Journal, Key, Observation, Version
<1>8. Grown(j, k, key, row)
  <2> HIDE DEF k
  <2>1. \A q \in Key \ {key} : k.versions[q] = j.versions[q]
    BY <1>2, <1>3
  <2>2. k.versions[key] = v
    <3> HIDE DEF v
    <3>1. QED
      BY <1>2, <1>3
  <2>3. QED
    BY <1>3, <2>1, <2>2 DEF Grown
<1>9. QED
  BY <1>1, <1>7, <1>8

\* The positions of the longer journal.
LEMMA GrownObservations ==
  ASSUME NEW j \in Journal, NEW k \in Journal, NEW key \in Key, NEW row \in Row,
         Grown(j, k, key, row)
  PROVE  /\ Len(j.observations) \in Nat
         /\ DOMAIN j.observations = 1..Len(j.observations)
         /\ Len(k.observations) = Len(j.observations) + 1
         /\ DOMAIN k.observations = 1..Len(j.observations) + 1
         /\ \A i \in 1..Len(j.observations) :
              /\ k.observations[i] = j.observations[i]
              /\ j.observations[i].key \in Key /\ j.observations[i].row \in Row
         /\ k.observations[Len(j.observations) + 1] = [key |-> key, row |-> row]
<1>1. /\ j.observations \in Seq(Observation)
      /\ [key |-> key, row |-> row] \in Observation
      /\ k.observations = Append(j.observations, [key |-> key, row |-> row])
  BY JournalParts DEF Grown, Observation
<1>2. PICK s, e : s = j.observations /\ e = [key |-> key, row |-> row]
  OBVIOUS
<1>3. /\ s \in Seq(Observation) /\ e \in Observation
      /\ k.observations = Append(s, e)
  BY <1>1, <1>2
<1>4. /\ Len(s) \in Nat /\ Len(Append(s, e)) = Len(s) + 1
      /\ DOMAIN s = 1..Len(s) /\ DOMAIN Append(s, e) = 1..Len(s) + 1
      /\ \A i \in 1..Len(s) : Append(s, e)[i] = s[i] /\ s[i] \in Observation
      /\ Append(s, e)[Len(s) + 1] = e
  BY <1>3, Appended
<1>5. /\ Len(s) \in Nat /\ DOMAIN s = 1..Len(s)
      /\ Len(k.observations) = Len(s) + 1 /\ DOMAIN k.observations = 1..Len(s) + 1
      /\ \A i \in 1..Len(s) : k.observations[i] = s[i] /\ s[i].key \in Key /\ s[i].row \in Row
      /\ k.observations[Len(s) + 1] = e
  BY <1>3, <1>4 DEF Observation
<1>6. QED
  BY <1>2, <1>5

\* What is newest before an old observation stays so; before the new one, it is what was
\* the newest of all.
LEMMA GrownPrecedes ==
  ASSUME NEW j \in Journal, NEW k \in Journal, NEW key \in Key, NEW row \in Row,
         Grown(j, k, key, row), NEW q, NEW i \in 1..Len(j.observations) + 1, NEW h \in 1..i - 1
  PROVE  Precedes(k, q, h, i) <=> Precedes(j, q, h, i)
<1> DEFINE n == Len(j.observations)
<1>1. n \in Nat /\ \A g \in 1..n : k.observations[g] = j.observations[g]
  BY GrownObservations
<1>2. h \in 1..n /\ \A g \in h + 1..i - 1 : g \in 1..n
  BY <1>1
<1>3. k.observations[h] = j.observations[h]
  BY <1>1, <1>2
<1>4. \A g \in h + 1..i - 1 : k.observations[g] = j.observations[g]
  BY <1>1, <1>2
<1> HIDE DEF n
<1>5. QED
  BY <1>3, <1>4 DEF Precedes

\* Old transitions stay, and the new observation is one if its row differs from the
\* newest of its source.
LEMMA GrownTransitions ==
  ASSUME NEW j \in Journal, NEW k \in Journal, NEW key \in Key, NEW row \in Row,
         Grown(j, k, key, row), NEW q \in Key
  PROVE  \A i : i \in Transitions(k, q) <=>
           \/ i \in Transitions(j, q)
           \/ /\ i = Len(j.observations) + 1 /\ q = key
              /\ \A h \in 1..Len(j.observations) :
                   Precedes(j, q, h, i) => j.observations[h].row # row
<1> DEFINE n == Len(j.observations)
<1>1. /\ n \in Nat /\ DOMAIN j.observations = 1..n /\ DOMAIN k.observations = 1..n + 1
      /\ \A i \in 1..n : k.observations[i] = j.observations[i]
      /\ k.observations[n + 1] = [key |-> key, row |-> row]
  BY GrownObservations
<1>2. \A i \in 1..n + 1 : \A h \in 1..i - 1 : Precedes(k, q, h, i) <=> Precedes(j, q, h, i)
  BY GrownPrecedes
<1> HIDE DEF n
<1>3. ASSUME NEW i \in 1..n PROVE i \in Transitions(k, q) <=> i \in Transitions(j, q)
  <2>1. i \in 1..n + 1 /\ \A h \in 1..i - 1 : h \in 1..n
    BY <1>1
  <2>2. QED
    BY <1>1, <1>2, <2>1 DEF Transitions
<1>4. n + 1 \in Transitions(k, q) <=>
        /\ q = key
        /\ \A h \in 1..n : Precedes(j, q, h, n + 1) => j.observations[h].row # row
  <2>1. n + 1 \in 1..n + 1 /\ n + 1 - 1 = n
    BY <1>1
  <2>2. QED
    BY <1>1, <1>2, <2>1 DEF Transitions
<1>5. Transitions(k, q) \subseteq 1..n + 1 /\ Transitions(j, q) \subseteq 1..n
  BY <1>1 DEF Transitions
<1>6. \A i \in 1..n + 1 : i \in 1..n \/ i = n + 1
  BY <1>1
<1>7. n + 1 \notin 1..n /\ n + 1 - 1 = n
  BY <1>1
<1>8. QED
  BY <1>3, <1>4, <1>5, <1>6, <1>7 DEF n

\* The chain of a source that the new observation leaves alone is verified still.
LEMMA OtherChains ==
  ASSUME NEW j \in Journal, NEW k \in Journal, NEW key \in Key, NEW row \in Row,
         Grown(j, k, key, row), NEW q \in Key, VerifiesChain(j, q),
         k.versions[q] = j.versions[q], Transitions(k, q) = Transitions(j, q)
  PROVE  VerifiesChain(k, q)
<1> DEFINE chain == j.versions[q]
<1>1. /\ {chain[n].observation : n \in DOMAIN chain} = Transitions(j, q)
      /\ \A n \in DOMAIN chain :
           /\ chain[n].row = j.observations[chain[n].observation].row
           /\ n > 1 => chain[n - 1].observation < chain[n].observation
  BY DEF VerifiesChain
<1> HIDE DEF chain
<1>2. \A n \in DOMAIN chain : chain[n].observation \in 1..Len(j.observations)
  <2>1. \A t \in Transitions(j, q) : t \in 1..Len(j.observations)
    BY GrownObservations DEF Transitions
  <2>2. QED
    BY <1>1, <2>1
<1>3. \A n \in DOMAIN chain :
        k.observations[chain[n].observation] = j.observations[chain[n].observation]
  BY <1>2, GrownObservations
<1>4. k.versions[q] = chain
  BY DEF chain
<1>5. QED
  BY <1>1, <1>3, <1>4 DEF VerifiesChain

\* The newest observation of a source is the last of its transitions' rows.
LEMMA SourceChain ==
  ASSUME NEW j \in Journal, NEW k \in Journal, NEW key \in Key, NEW row \in Row,
         Grown(j, k, key, row), VerifiesChain(j, key), Newest(j, key)
  PROVE  VerifiesChain(k, key) /\ Newest(k, key) /\ k.versions[key] # <<>>
<1> DEFINE n == Len(j.observations)
           v == j.versions[key]
           e == [row |-> row, observation |-> n + 1]
<1>1. /\ n \in Nat /\ DOMAIN j.observations = 1..n /\ DOMAIN k.observations = 1..n + 1
      /\ \A i \in 1..n : k.observations[i] = j.observations[i]
      /\ k.observations[n + 1] = [key |-> key, row |-> row]
      /\ Len(k.observations) = n + 1
  BY GrownObservations
<1>2. v \in Seq(Version)
  BY JournalParts
<1>3. e \in Version
  BY <1>1 DEF Version
<1>4. Precedes(k, key, n + 1, n + 2)
  BY <1>1 DEF Precedes
<1>5. CASE Unchanged(j, key, row)
  <2>1. k.versions[key] = v /\ v # <<>> /\ v[Len(v)].row = row
    BY <1>5 DEF Grown, Unchanged, Last
  <2>2. PICK h \in 1..n : Precedes(j, key, h, n + 1) /\ v[Len(v)].row = j.observations[h].row
    BY <1>1, <2>1 DEF Newest
  <2>3. Transitions(k, key) = Transitions(j, key)
    <3>1. ~\A g \in 1..n : Precedes(j, key, g, n + 1) => j.observations[g].row # row
      BY <2>1, <2>2
    <3>2. \A i : i \in Transitions(k, key) <=> i \in Transitions(j, key)
      BY <3>1, GrownTransitions
    <3>3. QED
      BY <3>2
  <2>4. VerifiesChain(k, key)
    BY <2>1, <2>3, OtherChains
  <2>5. Newest(k, key)
    <3>1. n + 1 \in DOMAIN k.observations /\ Len(k.observations) + 1 = n + 2
      BY <1>1
    <3>2. k.versions[key][Len(k.versions[key])].row = k.observations[n + 1].row
      BY <1>1, <2>1
    <3>3. QED
      BY <1>4, <2>1, <3>1, <3>2 DEF Newest
  <2>6. QED
    BY <2>1, <2>4, <2>5
<1>6. CASE ~Unchanged(j, key, row)
  <2> DEFINE w == k.versions[key]
  <2>1. w = Append(v, e)
    BY <1>6 DEF Grown
  <2>2. /\ Len(v) \in Nat /\ w # <<>> /\ Len(w) = Len(v) + 1
        /\ DOMAIN v = 1..Len(v) /\ DOMAIN w = 1..Len(v) + 1
        /\ \A i \in 1..Len(v) : w[i] = v[i] /\ v[i] \in Version
        /\ w[Len(v) + 1] = e
    <3> HIDE DEF v, e, w
    <3>1. QED
      BY <1>2, <1>3, <2>1, Appended
  <2>3. \A h \in 1..n : Precedes(j, key, h, n + 1) => j.observations[h].row # row
    <3> SUFFICES ASSUME NEW h \in 1..n, Precedes(j, key, h, n + 1)
        PROVE  j.observations[h].row # row
      OBVIOUS
    <3>1. j.observations[h].key = key
      BY DEF Precedes
    <3>2. v # <<>>
      BY <1>1, <3>1 DEF Newest
    <3>3. PICK g \in 1..n : Precedes(j, key, g, n + 1) /\ v[Len(v)].row = j.observations[g].row
      BY <1>1, <3>2 DEF Newest
    <3>4. g = h
      <4>1. j.observations[g].key = key
        BY <3>3 DEF Precedes
      <4>2. ~(g \in h + 1..n)
        BY <1>1, <4>1 DEF Precedes
      <4>3. ~(h \in g + 1..n)
        BY <1>1, <3>1, <3>3 DEF Precedes
      <4>4. QED
        BY <1>1, <4>2, <4>3
    <3>5. v[Len(v)].row # row
      BY <1>6, <3>2 DEF Unchanged, Last
    <3>6. QED
      BY <3>3, <3>4, <3>5
  <2>4. \A i : i \in Transitions(k, key) <=> i \in Transitions(j, key) \/ i = n + 1
    BY <2>3, GrownTransitions
  <2>5. /\ {v[i].observation : i \in DOMAIN v} = Transitions(j, key)
        /\ \A i \in DOMAIN v :
             /\ v[i].row = j.observations[v[i].observation].row
             /\ i > 1 => v[i - 1].observation < v[i].observation
    BY DEF VerifiesChain
  <2>6. \A i \in DOMAIN v : v[i].observation \in 1..n
    BY <1>1, <2>5 DEF Transitions
  <2> HIDE DEF v, w, n, e
  <2>7. e.row = row /\ e.observation = n + 1
    BY DEF e
  <2>8. {w[i].observation : i \in DOMAIN w} = Transitions(k, key)
    <3>1. \A i \in DOMAIN w : w[i].observation \in Transitions(k, key)
      BY <2>2, <2>4, <2>5, <2>7
    <3>2. \A t \in Transitions(j, key) : \E i \in DOMAIN w : w[i].observation = t
      BY <2>2, <2>5
    <3>3. \E i \in DOMAIN w : w[i].observation = n + 1
      BY <2>2, <2>7
    <3>4. \A t \in Transitions(k, key) : \E i \in DOMAIN w : w[i].observation = t
      BY <2>4, <3>2, <3>3
    <3>5. QED
      BY <3>1, <3>4
  <2>9. ASSUME NEW i \in DOMAIN w
        PROVE  /\ w[i].row = k.observations[w[i].observation].row
               /\ i > 1 => w[i - 1].observation < w[i].observation
    <3>1. CASE i \in 1..Len(v)
      <4>1. /\ w[i] = v[i] /\ i \in DOMAIN v /\ v[i].observation \in 1..n
            /\ i > 1 => w[i - 1] = v[i - 1]
        BY <2>2, <2>6, <3>1
      <4>2. v[i].row = k.observations[v[i].observation].row
        BY <1>1, <2>5, <4>1
      <4>3. i > 1 => v[i - 1].observation < v[i].observation
        BY <2>5, <4>1
      <4>4. QED
        BY <4>1, <4>2, <4>3
    <3>2. CASE i = Len(v) + 1
      <4>1. w[i].row = k.observations[w[i].observation].row
        BY <1>1, <2>2, <2>7, <3>2
      <4>2. ASSUME i > 1 PROVE w[i - 1].observation < w[i].observation
        <5>1. i - 1 \in DOMAIN v /\ w[i - 1] = v[i - 1] /\ i - 1 = Len(v)
          BY <2>2, <3>2, <4>2
        <5>2. v[i - 1].observation \in 1..n
          BY <2>6, <5>1
        <5>3. QED
          BY <1>1, <2>2, <2>7, <3>2, <5>1, <5>2
      <4>3. QED
        BY <4>1, <4>2
    <3>3. QED
      BY <2>2, <3>1, <3>2
  <2>10. VerifiesChain(k, key)
    BY <2>8, <2>9 DEF VerifiesChain, w
  <2>11. Newest(k, key)
    <3>1. n + 1 \in DOMAIN k.observations /\ Len(k.observations) + 1 = n + 2
      BY <1>1
    <3>2. w[Len(w)].row = k.observations[n + 1].row
      BY <1>1, <2>2, <2>7
    <3>3. QED
      BY <1>4, <2>2, <3>1, <3>2 DEF Newest, w
  <2>12. QED
    BY <2>2, <2>10, <2>11 DEF w
<1>7. QED
  BY <1>5, <1>6

\* Recording a row keeps a journal sound, and what it held.
LEMMA GrownSound ==
  ASSUME NEW j, Sound(j), NEW k \in Journal, NEW key \in Key, NEW row \in Row,
         Grown(j, k, key, row),
         \/ \A a \in Aliases(row) : j.aliases[a] = None
         \/ \A a \in Aliases(row) : j.aliases[a] = key
  PROVE  Sound(k)
<1>1. /\ j \in Journal /\ Verifies(j) /\ Bound(j)
      /\ \A q \in Key : Newest(j, q)
  BY DEF Sound
<1>2. /\ j.versions \in [Key -> Seq(Version)] /\ k.versions \in [Key -> Seq(Version)]
      /\ j.aliases \in [Key -> Key \cup {None}] /\ k.aliases \in [Key -> Key \cup {None}]
      /\ k.observations \in Seq(Observation)
  BY <1>1, JournalParts
<1>3. \A q \in Key : VerifiesChain(j, q)
  BY <1>1, <1>2 DEF Verifies
<1> DEFINE n == Len(j.observations)
<1>4. /\ n \in Nat /\ DOMAIN j.observations = 1..n /\ DOMAIN k.observations = 1..n + 1
      /\ \A i \in 1..n : /\ k.observations[i] = j.observations[i]
                         /\ j.observations[i].key \in Key /\ j.observations[i].row \in Row
      /\ k.observations[n + 1] = [key |-> key, row |-> row]
      /\ Len(k.observations) = n + 1
  BY <1>1, GrownObservations
<1>5. VerifiesChain(k, key) /\ Newest(k, key) /\ k.versions[key] # <<>>
  BY <1>1, <1>3, SourceChain
<1>6. ASSUME NEW q \in Key, q # key
      PROVE  VerifiesChain(k, q) /\ Newest(k, q) /\ k.versions[q] = j.versions[q]
  <2>1. k.versions[q] = j.versions[q]
    BY <1>6 DEF Grown
  <2>2. \A i : i \in Transitions(k, q) <=> i \in Transitions(j, q)
    BY <1>1, <1>6, GrownTransitions
  <2>3. VerifiesChain(k, q)
    <3>1. Transitions(k, q) = Transitions(j, q)
      BY <2>2
    <3>2. QED
      BY <1>1, <1>3, <2>1, <3>1, OtherChains
  <2>4. Newest(k, q)
    <3>1. CASE j.versions[q] = <<>>
      <4>1. \A i \in 1..n : j.observations[i].key # q
        BY <1>1, <1>4, <3>1 DEF Newest
      <4>2. \A i \in 1..n + 1 : k.observations[i].key # q
        <5>1. \A i \in 1..n + 1 : i \in 1..n \/ i = n + 1
          BY <1>4
        <5> HIDE DEF n
        <5>2. QED
          BY <1>4, <1>6, <4>1, <5>1
      <4>3. QED
        BY <1>4, <2>1, <3>1, <4>2 DEF Newest
    <3>2. CASE j.versions[q] # <<>>
      <4>1. PICK h \in 1..n :
              /\ Precedes(j, q, h, n + 1)
              /\ j.versions[q][Len(j.versions[q])].row = j.observations[h].row
        BY <1>1, <1>4, <3>2 DEF Newest
      <4>2. Precedes(k, q, h, n + 2)
        <5>1. j.observations[h].key = q /\ \A g \in h + 1..n : j.observations[g].key # q
          BY <1>4, <4>1 DEF Precedes
        <5>2. k.observations[h].key = q
          BY <1>4, <5>1
        <5>3. ASSUME NEW g \in h + 1..n + 1 PROVE k.observations[g].key # q
          <6>1. (g \in 1..n /\ g \in h + 1..n) \/ g = n + 1
            BY <1>4
          <6> HIDE DEF n
          <6>2. QED
            BY <1>4, <1>6, <5>1, <6>1
        <5>4. n + 2 - 1 = n + 1
          BY <1>4
        <5>5. QED
          BY <5>2, <5>3, <5>4 DEF Precedes
      <4>3. h \in DOMAIN k.observations /\ Len(k.observations) + 1 = n + 2
            /\ k.observations[h] = j.observations[h]
        BY <1>4
      <4>4. QED
        BY <2>1, <3>2, <4>1, <4>2, <4>3 DEF Newest
    <3>3. QED
      BY <3>1, <3>2
  <2>5. QED
    BY <2>1, <2>3, <2>4
<1>7. \A q \in Key : VerifiesChain(k, q) /\ Newest(k, q)
  BY <1>5, <1>6
<1>8. \A a \in Key : k.aliases[a] = IF a \in Aliases(row) THEN key ELSE j.aliases[a]
  BY DEF Grown
<1>9. \A a \in Key : k.aliases[a] # None => k.versions[k.aliases[a]] # <<>>
  <2> SUFFICES ASSUME NEW a \in Key, k.aliases[a] # None
      PROVE  k.versions[k.aliases[a]] # <<>>
    OBVIOUS
  <2>1. CASE k.aliases[a] = key
    BY <1>5, <2>1
  <2>2. CASE k.aliases[a] # key
    <3>1. k.aliases[a] = j.aliases[a] /\ k.aliases[a] \in Key
      BY <1>2, <1>8, <2>2
    <3>2. j.versions[j.aliases[a]] # <<>>
      BY <1>1, <1>2, <3>1 DEF Verifies
    <3>3. QED
      BY <1>6, <2>2, <3>1, <3>2
  <2>3. QED
    BY <2>1, <2>2
<1>10. Bound(k)
  <2> SUFFICES ASSUME NEW i \in 1..n + 1, NEW a \in Aliases(k.observations[i].row)
      PROVE  k.aliases[a] = k.observations[i].key
    BY <1>4 DEF Bound
  <2>1. CASE i \in 1..n
    <3>1. /\ k.observations[i] = j.observations[i] /\ a \in Key
          /\ j.observations[i].key \in Key
      BY <1>4, <2>1, AliasesTyped
    <3>2. j.aliases[a] = j.observations[i].key
      BY <1>1, <1>4, <2>1, <3>1 DEF Bound
    <3>3. j.aliases[a] # None
      BY <3>1, <3>2, JournalConstants DEF Key
    <3>4. QED
      BY <1>8, <3>1, <3>2, <3>3
  <2>2. CASE i = n + 1
    <3>1. k.observations[i] = [key |-> key, row |-> row]
      BY <1>4, <2>2
    <3>2. a \in Aliases(row) /\ k.observations[i].key = key
      BY <3>1
    <3>3. a \in Key
      BY <3>2, AliasesTyped
    <3>4. QED
      BY <1>8, <3>2, <3>3
  <2>3. QED
    BY <1>4, <2>1, <2>2
<1>11. Verifies(k)
  BY <1>2, <1>7, <1>9 DEF Verifies
<1>12. QED
  BY <1>7, <1>10, <1>11 DEF Sound

\* Journal k holds what j holds.
Extends(j, k) ==
  \A i \in DOMAIN j.observations :
    i \in DOMAIN k.observations /\ k.observations[i] = j.observations[i]

\* One row of a page: refused, skipped, or recorded in a journal that stays sound.
LEMMA EnteredSound ==
  ASSUME NEW j, Sound(j), NEW row \in Row
  PROVE  \/ Entered(j, row) = None
         \/ /\ Sound(Entered(j, row)) /\ Extends(j, Entered(j, row))
            /\ Aliases(row) # {} =>
                 /\ Entered(j, row).observations # <<>>
                 /\ Entered(j, row).observations[Len(Entered(j, row).observations)].row = row
<1>1. j \in Journal /\ j # None
  BY NoneIsNoJournal DEF Sound
<1>2. CASE Aliases(row) = {}
  <2>1. Entered(j, row) = j
    BY <1>2 DEF Entered
  <2>2. QED
    BY <1>2, <2>1 DEF Extends
<1>3. CASE Aliases(row) # {} /\ ~Conflict(j, row)
  <2> DEFINE k == RecordRow(j, row)
  <2>1. Entered(j, row) = k
    BY <1>1, <1>3 DEF Entered
  <2>2. PICK key \in Key : key = Canonical(j, row)
    BY <1>1, <1>3, OneSource
  <2>3. k \in Journal /\ Grown(j, k, key, row)
    BY <1>1, <1>3, <2>2, RecordGrows
  <2>4. \/ \A a \in Aliases(row) : j.aliases[a] = None
        \/ \A a \in Aliases(row) : j.aliases[a] = key
    BY <1>1, <1>3, <2>2, OneSource
  <2> HIDE DEF k
  <2>5. Sound(k)
    BY <2>3, <2>4, GrownSound
  <2>6. /\ Len(j.observations) \in Nat
        /\ DOMAIN j.observations = 1..Len(j.observations)
        /\ Len(k.observations) = Len(j.observations) + 1
        /\ DOMAIN k.observations = 1..Len(j.observations) + 1
        /\ \A i \in 1..Len(j.observations) : k.observations[i] = j.observations[i]
        /\ k.observations[Len(j.observations) + 1] = [key |-> key, row |-> row]
    BY <1>1, <2>3, GrownObservations
  <2>7. Extends(j, k)
    BY <2>6 DEF Extends
  <2>8. k.observations # <<>> /\ k.observations[Len(k.observations)].row = row
    BY <2>6
  <2>9. QED
    BY <2>1, <2>5, <2>7, <2>8
<1>4. CASE Aliases(row) # {} /\ Conflict(j, row)
  BY <1>1, <1>4 DEF Entered
<1>5. QED
  BY <1>2, <1>3, <1>4

\* The empty journal is sound.
LEMMA EmptySound == Sound(EmptyJournal)
<1> DEFINE j == EmptyJournal
<1>1. /\ j.observations = <<>> /\ DOMAIN j.observations = {}
      /\ j.versions = [q \in Key |-> <<>>] /\ j.aliases = [a \in Key |-> None]
  BY DEF EmptyJournal, Key
<1>2. j \in Journal
  <2>1. <<>> \in Seq(Observation) /\ <<>> \in Seq(Version)
    OBVIOUS
  <2>2. QED
    BY <2>1 DEF EmptyJournal, Journal, Key, Observation, Version
<1> HIDE DEF j
<1>3. \A q \in Key : VerifiesChain(j, q) /\ Newest(j, q)
  <2> SUFFICES ASSUME NEW q \in Key PROVE VerifiesChain(j, q) /\ Newest(j, q)
    OBVIOUS
  <2>1. j.versions[q] = <<>> /\ DOMAIN j.versions[q] = {}
    BY <1>1
  <2>2. Transitions(j, q) = {}
    BY <1>1 DEF Transitions
  <2>3. VerifiesChain(j, q)
    BY <2>1, <2>2 DEF VerifiesChain
  <2>4. Newest(j, q)
    BY <1>1, <2>1 DEF Newest
  <2>5. QED
    BY <2>3, <2>4
<1>4. Verifies(j)
  BY <1>1, <1>3 DEF Verifies
<1>5. Bound(j)
  BY <1>1 DEF Bound
<1>6. QED
  BY <1>2, <1>3, <1>4, <1>5 DEF Sound, j

-----------------------------------------------------------------------------
\* f holds the journal after each row of a page, up to row m.
IsRecording(j, page, m, f) ==
  f = [n \in 0..m |-> IF n = 0 THEN j ELSE Entered(f[n - 1], page[n])]

\* There is such a function, however long the page.
LEMMA RecordingExists ==
  ASSUME NEW j, NEW page, NEW m \in Nat
  PROVE  \E f : IsRecording(j, page, m, f)
<1> DEFINE T == {i \in Nat : ~\E f : IsRecording(j, page, i, f)}
<1>1. SUFFICES ASSUME T # {} PROVE FALSE
  OBVIOUS
<1>2. PICK i \in T : \A h \in T : i <= h
  <2>1. T \subseteq Nat
    OBVIOUS
  <2> HIDE DEF T
  <2>2. QED
    BY <1>1, <2>1, LeastNumber
<1>3. CASE i = 0
  <2> DEFINE f == [n \in 0..0 |-> j]
  <2>1. \A n \in 0..0 : n = 0
    OBVIOUS
  <2>2. f = [n \in 0..0 |-> IF n = 0 THEN j ELSE Entered(f[n - 1], page[n])]
    BY <2>1
  <2>3. QED
    BY <1>3, <2>2 DEF IsRecording
<1>4. CASE i # 0
  <2>1. i - 1 \in Nat /\ i - 1 \notin T
    BY <1>2, <1>4
  <2>2. PICK f : IsRecording(j, page, i - 1, f)
    BY <2>1
  <2> DEFINE v(n) == IF n = i THEN Entered(f[i - 1], page[i]) ELSE f[n]
             g == [n \in 0..i |-> v(n)]
             u(n) == IF n = 0 THEN j ELSE Entered(g[n - 1], page[n])
  <2>3. ASSUME NEW n \in 0..i PROVE v(n) = u(n)
    <3>1. CASE n = i
      <4>1. i - 1 \in 0..i /\ i - 1 # i /\ n # 0
        BY <1>4, <2>1, <3>1
      <4>2. g[n - 1] = f[i - 1]
        BY <3>1, <4>1
      <4> HIDE DEF g
      <4>3. QED
        BY <3>1, <4>1, <4>2
    <3>2. CASE n # i /\ n # 0
      <4>1. n \in 0..i - 1 /\ n - 1 \in 0..i /\ n - 1 # i
        BY <2>1, <3>2
      <4>2. g[n - 1] = f[n - 1]
        BY <4>1
      <4>3. f[n] = Entered(f[n - 1], page[n])
        BY <2>2, <3>2, <4>1, Zenon DEF IsRecording
      <4> HIDE DEF g
      <4>4. QED
        BY <3>2, <4>2, <4>3
    <3>3. CASE n # i /\ n = 0
      <4>1. 0 \in 0..i - 1
        BY <2>1
      <4>2. f[0] = j
        BY <2>2, <4>1, Zenon DEF IsRecording
      <4>3. QED
        BY <3>3, <4>2
    <3>4. QED
      BY <3>1, <3>2, <3>3
  <2>4. g = [n \in 0..i |-> u(n)]
    <3> HIDE DEF v, u
    <3>1. QED
      BY <2>3
  <2>5. IsRecording(j, page, i, g)
    BY <2>4, Zenon DEF IsRecording
  <2>6. QED
    BY <1>2, <2>5
<1>5. QED
  BY <1>3, <1>4

\* f is the journal after each row of a page, and what the page comes to.
Records(j, page, f) ==
  /\ RecordPage(j, page) = IF Anonymous(page) THEN None ELSE f[Len(page)]
  /\ f[0] = j
  /\ \A n \in 1..Len(page) : f[n] = Entered(f[n - 1], page[n])

\* record_smarts_page goes on from row to row.
LEMMA PageRecorded ==
  ASSUME NEW j, NEW page \in Seq(Row)
  PROVE  \E f : Records(j, page, f)
<1> DEFINE after == CHOOSE f : IsRecording(j, page, Len(page), f)
<1>1. IsRecording(j, page, Len(page), after)
  <2>1. Len(page) \in Nat
    OBVIOUS
  <2>2. QED
    BY <2>1, RecordingExists
<1>2. RecordPage(j, page) = IF Anonymous(page) THEN None ELSE after[Len(page)]
  BY Zenon DEF RecordPage, IsRecording
<1> HIDE DEF after
<1>3. 0 \in 0..Len(page) /\ \A n \in 1..Len(page) : n \in 0..Len(page) /\ n # 0
  OBVIOUS
<1>4. /\ after[0] = j
      /\ \A n \in 1..Len(page) : after[n] = Entered(after[n - 1], page[n])
  BY <1>1, <1>3, Zenon DEF IsRecording
<1>5. QED
  BY <1>2, <1>4 DEF Records

\* A page keeps the journal sound and what it held, and its last row is the newest
\* observation if it has an identity.
LEMMA PageSound ==
  ASSUME NEW j, Sound(j), NEW page \in Seq(Row)
  PROVE  \/ RecordPage(j, page) = None
         \/ /\ Sound(RecordPage(j, page)) /\ Extends(j, RecordPage(j, page))
            /\ page # <<>> /\ Aliases(page[Len(page)]) # {} =>
                 LET k == RecordPage(j, page) IN
                 k.observations # <<>> /\ k.observations[Len(k.observations)].row = page[Len(page)]
<1>0. PICK f : Records(j, page, f)
  BY PageRecorded
<1>1. /\ RecordPage(j, page) = IF Anonymous(page) THEN None ELSE f[Len(page)]
      /\ f[0] = j
      /\ \A n \in 1..Len(page) : f[n] = Entered(f[n - 1], page[n])
  BY <1>0 DEF Records
<1>2. Len(page) \in Nat /\ \A n \in 1..Len(page) : page[n] \in Row
  OBVIOUS
<1> DEFINE Good(k) == Sound(k) /\ Extends(j, k)
           T == {n \in 0..Len(page) : f[n] # None /\ ~Good(f[n])}
<1>3. T = {}
  <2>1. SUFFICES ASSUME T # {} PROVE FALSE
    OBVIOUS
  <2>2. PICK n \in T : \A h \in T : n <= h
    <3>1. T \subseteq Nat
      BY <1>2
    <3> HIDE DEF T
    <3>2. QED
      BY <2>1, <3>1, LeastNumber
  <2>3. n # 0
    BY <1>1 DEF Extends
  <2>4. n \in 1..Len(page) /\ n - 1 \in 0..Len(page) /\ n - 1 \notin T
    BY <1>2, <2>2, <2>3
  <2>5. f[n] = Entered(f[n - 1], page[n]) /\ f[n] # None
    BY <1>1, <2>4
  <2>6. f[n - 1] # None
    BY <2>5 DEF Entered
  <2>7. Sound(f[n - 1]) /\ Extends(j, f[n - 1])
    BY <2>4, <2>6
  <2>8. Sound(f[n]) /\ Extends(f[n - 1], f[n])
    BY <1>2, <2>4, <2>5, <2>7, EnteredSound
  <2>9. Extends(j, f[n])
    BY <2>7, <2>8 DEF Extends
  <2>10. QED
    BY <2>8, <2>9
<1>4. \A n \in 0..Len(page) : f[n] = None \/ Good(f[n])
  BY <1>3
<1>5. CASE Anonymous(page)
  BY <1>1, <1>5
<1>6. CASE ~Anonymous(page)
  <2>1. RecordPage(j, page) = f[Len(page)] /\ Len(page) \in 0..Len(page)
    BY <1>1, <1>2, <1>6
  <2>2. ASSUME f[Len(page)] # None, page # <<>>, Aliases(page[Len(page)]) # {}
        PROVE  LET k == f[Len(page)] IN
               k.observations # <<>> /\ k.observations[Len(k.observations)].row = page[Len(page)]
    <3>1. Len(page) \in 1..Len(page) /\ Len(page) - 1 \in 0..Len(page)
      BY <1>2, <2>2
    <3>2. f[Len(page)] = Entered(f[Len(page) - 1], page[Len(page)])
      BY <1>1, <3>1
    <3>3. f[Len(page) - 1] # None
      BY <2>2, <3>2 DEF Entered
    <3>4. Sound(f[Len(page) - 1])
      BY <1>4, <3>1, <3>3
    <3>5. QED
      BY <1>2, <2>2, <3>1, <3>2, <3>4, EnteredSound
  <2>3. QED
    BY <1>4, <2>1, <2>2
<1>7. QED
  BY <1>5, <1>6

-----------------------------------------------------------------------------
(* The sweeps.                                                             *)

\* What a process knows.
Knows == [pc: {"idle", "fetch", "record", "advance"}, run: RunId \cup {None},
          index: Nat, last: Nat, page: Seq(Row), receipt: Receipt \cup {None}]

\* A process that works on a sweep is at one of its targets, and what it has fetched or
\* recorded is what this target names.
Working(p) ==
  /\ proc[p].pc \in {"fetch", "advance"} => p \in Sweeper
  /\ proc[p].pc # "idle" /\ p \in Sweeper =>
       /\ proc[p].run # None
       /\ proc[p].index <= proc[p].last /\ proc[p].last <= Len(runs[proc[p].run].roster)
  /\ proc[p].pc = "record" /\ p \in Sweeper =>
       Len(proc[p].page) = 1 /\ Target(p) \in Aliases(proc[p].page[1])
  /\ proc[p].pc = "advance" =>
       /\ proc[p].receipt # None
       /\ Evidence(proc[p].receipt)
       /\ Target(p) \in Aliases(proc[p].receipt.row)

\* A sweep's steps are its targets that are done, each with its evidence.
Done(r) == runs[r] # None =>
  /\ VerifiedPrefix(r)
  /\ \A s \in StepsOf(r) : runs[r].roster[s.index] \in Aliases(s.receipt.row)

\* The inductive invariant.
IInv ==
  /\ TypeOK
  /\ Sound(journal)
  /\ \A p \in Process : Working(p)
  /\ \A s \in steps : runs[s.run] # None
  /\ \A r \in RunId : Done(r)
  /\ OneOpenSweep

\* What a step may do to the journal and to sweeps that were begun.
Onwards ==
  /\ Extends(journal, journal')
  /\ \A r \in RunId : runs[r] # None => runs'[r] # None /\ runs'[r].roster = runs[r].roster

\* A process that is idle knows nothing.
LEMMA IdleTyped ==
  /\ NoProc \in Knows /\ NoProc.pc = "idle" /\ NoProc.run = None /\ NoProc.page = <<>>
  /\ NoProc.receipt = None
BY DEF NoProc, Knows

\* Evidence stays in a journal that grows.
LEMMA EvidenceKept ==
  ASSUME Extends(journal, journal'), NEW x, Evidence(x)
  PROVE  /\ x.observation \in DOMAIN journal'.observations
         /\ journal'.observations[x.observation] = [key |-> x.key, row |-> x.row]
BY DEF Evidence, Extends

\* Types after a step in which one process moves.
LEMMA TypeMoved ==
  ASSUME TypeOK, NEW p \in Process, NEW x \in Knows, proc' = [proc EXCEPT ![p] = x],
         UNCHANGED <<source, changes>>, journal' \in Journal,
         runs' \in [RunId -> Run \cup {None}], steps' \subseteq Step, Onwards,
         x.run # None => runs'[x.run] # None /\ x.index \in DOMAIN runs'[x.run].roster
  PROVE  TypeOK'
<1>1. proc \in [Process -> Knows]
  BY DEF TypeOK, Knows
<1>2. proc' \in [Process -> Knows]
  BY <1>1
<1>3. ASSUME NEW q \in Process, proc'[q].run # None
      PROVE  /\ runs'[proc'[q].run] # None
             /\ proc'[q].index \in DOMAIN runs'[proc'[q].run].roster
  <2>1. CASE q = p
    BY <1>1, <1>3, <2>1
  <2>2. CASE q # p
    <3>1. proc'[q] = proc[q] /\ proc[q].run \in RunId
      BY <1>1, <1>3, <2>2 DEF Knows
    <3>2. runs[proc[q].run] # None /\ proc[q].index \in DOMAIN runs[proc[q].run].roster
      BY <1>3, <3>1 DEF TypeOK
    <3>3. QED
      BY <3>1, <3>2 DEF Onwards
  <2>3. QED
    BY <2>1, <2>2
<1>4. QED
  BY <1>2, <1>3 DEF TypeOK, Knows

\* A process that does not move still knows what it knew.
LEMMA WorkKept ==
  ASSUME TypeOK, Onwards, NEW q \in Process, proc'[q] = proc[q], Working(q)
  PROVE  Working(q)'
<1>1. proc[q] \in Knows
  BY DEF TypeOK, Knows
<1>2. CASE proc[q].pc = "idle"
  BY <1>2 DEF Working
<1>3. CASE proc[q].pc # "idle" /\ q \notin Sweeper
  BY <1>3 DEF Working
<1>4. CASE proc[q].pc # "idle" /\ q \in Sweeper
  <2>1. proc[q].run \in RunId
    BY <1>1, <1>4 DEF Working, Knows
  <2>2. runs[proc[q].run] # None
    BY <2>1, NoneIsNoSweep DEF TypeOK
  <2>3. runs'[proc[q].run].roster = runs[proc[q].run].roster
    BY <2>1, <2>2 DEF Onwards
  <2>4. Target(q)' = Target(q)
    BY <2>3 DEF Target
  <2>5. proc[q].pc = "advance" => Evidence(proc[q].receipt)'
    BY EvidenceKept DEF Working, Onwards, Evidence
  <2>6. QED
    BY <1>4, <2>3, <2>4, <2>5 DEF Working
<1>5. QED
  BY <1>2, <1>3, <1>4

\* A sweep that nobody advances keeps its steps and their evidence.
LEMMA DoneKept ==
  ASSUME NEW r \in RunId, Done(r), runs'[r] = runs[r], StepsOf(r)' = StepsOf(r), Onwards
  PROVE  Done(r)'
<1>1. \A x : Evidence(x) => Evidence(x)'
  BY EvidenceKept DEF Onwards, Evidence
<1>2. QED
  BY <1>1 DEF Done, VerifiedPrefix

\* The processes that do not move.
LEMMA OthersWork ==
  ASSUME IInv, Onwards, NEW p \in Process, NEW x, proc' = [proc EXCEPT ![p] = x], Working(p)'
  PROVE  \A q \in Process : Working(q)'
<1>1. ASSUME NEW q \in Process, q # p PROVE Working(q)'
  <2>1. proc'[q] = proc[q]
    BY <1>1 DEF IInv, TypeOK
  <2>2. QED
    BY <2>1, WorkKept DEF IInv
<1>2. QED
  BY <1>1

\* A step of one process that touches neither the journal nor the checkpoint.
LEMMA MovesAlone ==
  ASSUME IInv, NEW p \in Process, NEW x \in Knows, proc' = [proc EXCEPT ![p] = x],
         UNCHANGED <<source, changes, journal, runs, steps>>,
         x.run # None => runs[x.run] # None /\ x.index \in DOMAIN runs[x.run].roster,
         Working(p)'
  PROVE  IInv'
<1>1. Onwards
  BY DEF Onwards, Extends
<1>2. TypeOK'
  <2>1. TypeOK /\ journal \in Journal /\ runs \in [RunId -> Run \cup {None}] /\ steps \subseteq Step
    BY DEF IInv, TypeOK
  <2>2. QED
    BY <1>1, <2>1, TypeMoved
<1>3. \A q \in Process : Working(q)'
  BY <1>1, OthersWork
<1>4. \A r \in RunId : Done(r)'
  BY <1>1, DoneKept DEF IInv, StepsOf
<1>5. (\A s \in steps : runs[s.run] # None)' /\ Sound(journal)' /\ OneOpenSweep'
  BY DEF IInv, OneOpenSweep, Unfinished
<1>6. QED
  BY <1>2, <1>3, <1>4, <1>5 DEF IInv

\* What SMARTS publishes is nothing to the sweeps.
LEMMA RepublishKeeps == ASSUME IInv, NEW f \in Facility, Republish(f) PROVE IInv'
<1>1. /\ changes' \in 0..MaxChanges
      /\ UNCHANGED <<journal, runs, steps, proc>>
  BY RosterConstants DEF IInv, TypeOK, Republish
<1>2. source' \in [Facility -> Row] /\ \A g \in Facility : source'[g] \in Published[g]
  <2>1. PICK row \in Published[f] : source' = [source EXCEPT ![f] = row]
    BY DEF Republish
  <2>2. row \in Row
    BY RosterConstants
  <2>3. source \in [Facility -> Row] /\ \A g \in Facility : source[g] \in Published[g]
    BY DEF IInv, TypeOK
  <2>4. QED
    BY <2>1, <2>2, <2>3
<1>3. TypeOK'
  BY <1>1, <1>2 DEF IInv, TypeOK
<1>4. /\ \A p \in Process : Working(p)'
      /\ \A r \in RunId : Done(r)'
  BY <1>1 DEF IInv, Working, Target, Evidence, Done, VerifiedPrefix, StepsOf
<1>5. QED
  BY <1>1, <1>3, <1>4 DEF IInv, OneOpenSweep, Unfinished

\* A process that stops, or one that gives up, leaves the checkpoint as it is.
LEMMA StopsKeeps ==
  ASSUME IInv, NEW p \in Process, proc' = [proc EXCEPT ![p] = NoProc],
         UNCHANGED <<source, changes, journal, runs, steps>>
  PROVE  IInv'
<1>1. proc'[p] = NoProc
  BY DEF IInv, TypeOK
<1>2. Working(p)'
  BY <1>1, IdleTyped DEF Working
<1>3. QED
  BY <1>2, IdleTyped, MovesAlone

\* What a process is set to work at.
LEMMA Worked ==
  ASSUME IInv, NEW p \in Process, NEW r \in RunId, NEW roster \in Rosters,
         NEW next \in Nat, NEW budget \in Budgets, next < Len(roster),
         Works(p, r, roster, next, budget)
  PROVE  \E x \in Knows :
           /\ proc' = [proc EXCEPT ![p] = x] /\ proc'[p] = x
           /\ x.pc = "fetch" /\ x.run = r /\ x.index = next + 1 /\ x.receipt = None
           /\ x.index \in DOMAIN roster /\ x.index <= x.last /\ x.last <= Len(roster)
<1> DEFINE x == [NoProc EXCEPT !.pc = "fetch", !.run = r, !.index = next + 1,
                               !.last = LastTarget(roster, next, budget)]
<1>1. roster \in Seq(Key) /\ Len(roster) \in Nat /\ DOMAIN roster = 1..Len(roster)
      /\ budget \in Nat \ {0}
  BY RosterConstants DEF Key
<1>2. /\ LastTarget(roster, next, budget) \in Nat
      /\ next + 1 <= LastTarget(roster, next, budget)
      /\ LastTarget(roster, next, budget) <= Len(roster)
  BY <1>1 DEF LastTarget
<1>3. PICK y : y = LastTarget(roster, next, budget)
  OBVIOUS
<1> DEFINE z == [NoProc EXCEPT !.pc = "fetch", !.run = r, !.index = next + 1, !.last = y]
<1>4. /\ x = z /\ z \in Knows
      /\ z.pc = "fetch" /\ z.run = r /\ z.index = next + 1 /\ z.last = y /\ z.receipt = None
  <2>1. y \in Nat /\ next + 1 \in Nat
    BY <1>2, <1>3
  <2>2. x = z
    BY <1>3
  <2>3. z \in Knows
    BY <2>1, IdleTyped DEF Knows
  <2>4. z.pc = "fetch" /\ z.run = r /\ z.index = next + 1 /\ z.last = y /\ z.receipt = None
    BY IdleTyped DEF Knows
  <2>5. QED
    BY <2>2, <2>3, <2>4
<1>5. proc' = [proc EXCEPT ![p] = x] /\ proc'[p] = x
  BY DEF Works, IInv, TypeOK
<1>6. next + 1 \in DOMAIN roster
  BY <1>1
<1> HIDE DEF x, z
<1>7. QED
  BY <1>2, <1>3, <1>4, <1>5, <1>6

\* A new sweep has no step yet, and no other is open.
LEMMA StartKeeps ==
  ASSUME IInv, NEW p \in Sweeper, NEW r \in RunId, NEW roster \in Rosters, NEW budget \in Budgets,
         StartSweep(p, r, roster, budget)
  PROVE  IInv'
<1>1. /\ runs[r] = None /\ UNCHANGED <<source, changes, journal, steps>>
      /\ runs' = [runs EXCEPT ![r] = [roster |-> roster, next |-> 0]]
      /\ Works(p, r, roster, 0, budget)
      /\ \A q \in RunId : ~Unfinished(q)
      /\ TypeOK /\ runs \in [RunId -> Run \cup {None}] /\ steps \subseteq Step /\ journal \in Journal
      /\ p \in Process
  BY DEF StartSweep, IInv, TypeOK, Process
<1>2. roster \in Seq(Key) /\ Len(roster) \in Nat /\ 0 < Len(roster)
  BY RosterConstants DEF Key
<1> DEFINE z == [roster |-> roster, next |-> 0]
<1>3. z \in Run /\ z # None /\ z.roster = roster /\ z.next = 0
  BY NoneIsNoSweep DEF Run
<1> HIDE DEF z
<1>4. /\ runs' \in [RunId -> Run \cup {None}] /\ runs'[r] = z
      /\ \A q \in RunId \ {r} : runs'[q] = runs[q]
  BY <1>1, <1>3 DEF z
<1>5. Onwards
  BY <1>1, <1>4 DEF Onwards, Extends
<1>6. PICK x \in Knows :
        /\ proc' = [proc EXCEPT ![p] = x] /\ proc'[p] = x
        /\ x.pc = "fetch" /\ x.run = r /\ x.index = 0 + 1 /\ x.receipt = None
        /\ x.index \in DOMAIN roster /\ x.index <= x.last /\ x.last <= Len(roster)
  <2>1. 0 \in Nat
    OBVIOUS
  <2>2. QED
    BY <1>1, <1>2, <2>1, Worked
<1>7. TypeOK'
  <2>1. x.run # None => runs'[x.run] # None /\ x.index \in DOMAIN runs'[x.run].roster
    BY <1>3, <1>4, <1>6
  <2>2. QED
    BY <1>1, <1>4, <1>5, <1>6, <2>1, TypeMoved
<1>8. \A q \in Process : Working(q)'
  <2>1. Working(p)'
    BY <1>3, <1>4, <1>6, NoneIsNoSweep DEF Working
  <2>2. QED
    BY <1>1, <1>5, <1>6, <2>1, OthersWork
<1>9. \A s \in steps' : runs'[s.run] # None
  BY <1>1, <1>3, <1>4 DEF IInv, Step
<1>10. ASSUME NEW q \in RunId PROVE Done(q)'
  <2>1. CASE q = r
    <3>1. StepsOf(r)' = {}
      BY <1>1 DEF IInv, StepsOf
    <3>2. 1..runs'[r].next = {}
      BY <1>3, <1>4
    <3>3. QED
      BY <2>1, <3>1, <3>2 DEF Done, VerifiedPrefix
  <2>2. CASE q # r
    BY <1>1, <1>4, <1>5, <2>2, DoneKept DEF IInv, StepsOf
  <2>3. QED
    BY <2>1, <2>2
<1>11. OneOpenSweep'
  BY <1>1, <1>4 DEF OneOpenSweep, Unfinished
<1>12. QED
  BY <1>1, <1>7, <1>8, <1>9, <1>10, <1>11 DEF IInv

\* A sweep that is resumed goes on at the target its cursor shows.
LEMMA ResumeKeeps ==
  ASSUME IInv, NEW p \in Sweeper, NEW r \in RunId, NEW roster \in Rosters, NEW budget \in Budgets,
         ResumeSweep(p, r, roster, budget)
  PROVE  IInv'
<1>1. /\ runs[r] # None /\ UNCHANGED <<source, changes, journal, runs, steps>>
      /\ runs[r].roster = roster /\ runs[r].next < Len(roster)
      /\ Works(p, r, roster, runs[r].next, budget)
      /\ runs[r].next \in Nat /\ p \in Process
  BY DEF ResumeSweep, IInv, TypeOK, Process, Run
<1>2. PICK x \in Knows :
        /\ proc' = [proc EXCEPT ![p] = x] /\ proc'[p] = x
        /\ x.pc = "fetch" /\ x.run = r /\ x.index = runs[r].next + 1 /\ x.receipt = None
        /\ x.index \in DOMAIN roster /\ x.index <= x.last /\ x.last <= Len(roster)
  BY <1>1, Worked
<1>3. Working(p)'
  BY <1>1, <1>2, NoneIsNoSweep DEF Working
<1>4. QED
  BY <1>1, <1>2, <1>3, MovesAlone

\* The lookup of a target finds a row that has the target among its identifiers.
LEMMA FetchTargetKeeps == ASSUME IInv, NEW p \in Process, FetchTarget(p) PROVE IInv'
<1> DEFINE found == {f \in Facility : Target(p) \in Aliases(source[f])}
           g == CHOOSE f \in found : TRUE
           x == [proc[p] EXCEPT !.pc = "record", !.page = <<source[g]>>]
<1>1. /\ p \in Sweeper /\ proc[p].pc = "fetch" /\ proc[p] \in Knows /\ proc \in [Process -> Knows]
      /\ UNCHANGED <<source, changes, journal, runs, steps>>
      /\ source \in [Facility -> Row]
  BY DEF FetchTarget, At, IInv, TypeOK, Knows
<1>2. CASE Cardinality(found) = 1
  <2>1. proc' = [proc EXCEPT ![p] = x]
    BY <1>2 DEF FetchTarget
  <2>2. found # {}
    <3> HIDE DEF found
    <3>1. QED
      BY <1>2, FS_EmptySet
  <2>3. g \in found
    BY <2>2
  <2>4. source[g] \in Row /\ Target(p) \in Aliases(source[g])
    BY <1>1, <2>3
  <2> HIDE DEF g, found
  <2>5. /\ x \in Knows /\ x.pc = "record" /\ Len(x.page) = 1 /\ x.page[1] = source[g]
        /\ x.run = proc[p].run /\ x.index = proc[p].index /\ x.last = proc[p].last
    <3>1. <<source[g]>> \in Seq(Row)
      BY <2>4
    <3>2. QED
      BY <1>1, <3>1 DEF Knows
  <2>6. proc'[p] = x
    BY <1>1, <2>1
  <2> HIDE DEF x
  <2>7. x.run # None => runs[x.run] # None /\ x.index \in DOMAIN runs[x.run].roster
    BY <2>5 DEF IInv, TypeOK
  <2>8. Working(p)'
    BY <1>1, <2>4, <2>5, <2>6 DEF IInv, Working, Target
  <2>9. QED
    BY <1>1, <2>1, <2>5, <2>7, <2>8, MovesAlone
<1>3. CASE Cardinality(found) # 1
  <2>1. proc' = [proc EXCEPT ![p] = NoProc]
    BY <1>3 DEF FetchTarget
  <2>2. QED
    BY <1>1, <2>1, StopsKeeps
<1>4. QED
  BY <1>2, <1>3

\* A page of the list holds published rows.
LEMMA FetchPageKeeps == ASSUME IInv, NEW p \in Process, FetchPage(p) PROVE IInv'
<1>0. PICK listed \in SUBSET Facility : \E page \in SetToSeqs({source[f] : f \in listed}) :
        proc' = [proc EXCEPT ![p] = [NoProc EXCEPT !.pc = "record", !.page = page]]
  BY DEF FetchPage
<1>1. PICK page \in SetToSeqs({source[f] : f \in listed}) :
        proc' = [proc EXCEPT ![p] = [NoProc EXCEPT !.pc = "record", !.page = page]]
  BY <1>0
<1>2. /\ p \in Lister /\ p \notin Sweeper /\ UNCHANGED <<source, changes, journal, runs, steps>>
      /\ proc \in [Process -> Knows] /\ source \in [Facility -> Row]
  BY RosterConstants DEF FetchPage, IInv, TypeOK, Knows
<1> DEFINE S == {source[f] : f \in listed}
           x == [NoProc EXCEPT !.pc = "record", !.page = page]
<1>3. page \in Seq(Row)
  <2>1. S \subseteq Row
    BY <1>2
  <2>2. IsFiniteSet(listed)
    BY RosterConstants, FS_Subset
  <2>3. IsFiniteSet(S)
    <3> DEFINE image == [f \in listed |-> source[f]]
    <3>1. image \in Surjection(listed, S)
      BY DEF Surjection
    <3> HIDE DEF image, S
    <3>2. QED
      BY <2>2, <3>1, FS_Surjection
  <2> HIDE DEF S
  <2>4. Cardinality(S) \in Nat
    BY <2>3, FS_CardinalityType
  <2>5. page \in [1..Cardinality(S) -> S]
    BY DEF SetToSeqs, S
  <2>6. QED
    BY <2>1, <2>4, <2>5
<1>4. x \in Knows /\ x.pc = "record" /\ x.run = None
  BY <1>3, IdleTyped DEF Knows
<1>5. proc'[p] = x
  BY <1>1, <1>2
<1> HIDE DEF x
<1>6. Working(p)'
  BY <1>2, <1>4, <1>5 DEF Working
<1>7. proc' = [proc EXCEPT ![p] = x]
  BY <1>1 DEF x
<1>8. QED
  BY <1>2, <1>4, <1>6, <1>7, MovesAlone

\* Recording keeps the journal sound, and a sweep's receipt is its evidence.
LEMMA RecordKeeps == ASSUME IInv, NEW p \in Process, Record(p) PROVE IInv'
<1>1. /\ proc[p].pc = "record" /\ proc[p] \in Knows /\ proc \in [Process -> Knows]
      /\ UNCHANGED <<source, changes, runs, steps>> /\ proc[p].page \in Seq(Row)
      /\ Sound(journal) /\ TypeOK /\ runs \in [RunId -> Run \cup {None}] /\ steps \subseteq Step
  BY DEF Record, At, IInv, TypeOK, Knows
<1>2. CASE Recorded(p) = None
  <2>1. journal' = journal /\ proc' = [proc EXCEPT ![p] = NoProc]
    BY <1>2 DEF Record
  <2>2. QED
    BY <1>1, <2>1, StopsKeeps
<1>3. CASE Recorded(p) # None
  <2>1. journal' = Recorded(p)
    BY <1>3 DEF Record
  <2>2. /\ Sound(journal') /\ Extends(journal, journal')
        /\ proc[p].page # <<>> /\ Aliases(proc[p].page[Len(proc[p].page)]) # {} =>
             /\ journal'.observations # <<>>
             /\ journal'.observations[Len(journal'.observations)].row
                  = proc[p].page[Len(proc[p].page)]
    BY <1>1, <1>3, <2>1, PageSound DEF Recorded
  <2>3. journal' \in Journal /\ Onwards
    BY <1>1, <2>2 DEF Sound, Onwards
  <2>4. /\ \A r \in RunId : Done(r)'
        /\ \A s \in steps' : runs'[s.run] # None
        /\ OneOpenSweep'
    <3>1. \A r \in RunId : Done(r)'
      BY <1>1, <2>3, DoneKept DEF IInv, StepsOf
    <3>2. QED
      BY <1>1, <3>1 DEF IInv, OneOpenSweep, Unfinished
  <2>5. SUFFICES \E x \in Knows :
          /\ proc' = [proc EXCEPT ![p] = x]
          /\ x.run # None => runs[x.run] # None /\ x.index \in DOMAIN runs[x.run].roster
          /\ Working(p)'
    <3>1. PICK x \in Knows :
            /\ proc' = [proc EXCEPT ![p] = x]
            /\ x.run # None => runs[x.run] # None /\ x.index \in DOMAIN runs[x.run].roster
            /\ Working(p)'
      BY <2>5
    <3>2. TypeOK'
      BY <1>1, <2>3, <3>1, TypeMoved
    <3>3. \A q \in Process : Working(q)'
      BY <2>3, <3>1, OthersWork
    <3>4. QED
      BY <2>2, <2>4, <3>2, <3>3 DEF IInv
  <2>6. CASE p \in Lister
    <3>1. proc' = [proc EXCEPT ![p] = NoProc] /\ proc'[p] = NoProc
      BY <1>1, <1>3, <2>6 DEF Record
    <3>2. Working(p)'
      BY <3>1, IdleTyped DEF Working
    <3>3. QED
      BY <3>1, <3>2, IdleTyped
  <2>7. CASE p \notin Lister
    <3> DEFINE n == Len(journal'.observations)
               o == journal'.observations[n]
               x == [proc[p] EXCEPT !.pc = "advance", !.page = <<>>,
                       !.receipt = [observation |-> n, key |-> o.key, row |-> o.row]]
               row == proc[p].page[1]
    <3>1. p \in Sweeper
      BY <2>7 DEF Process
    <3>2. proc' = [proc EXCEPT ![p] = x]
      BY <1>3, <2>1, <2>7 DEF Record
    <3>3. Len(proc[p].page) = 1 /\ Target(p) \in Aliases(row)
      BY <1>1, <3>1 DEF IInv, Working
    <3>4. proc[p].page # <<>> /\ row = proc[p].page[Len(proc[p].page)]
      BY <1>1, <3>3
    <3>5. journal'.observations # <<>> /\ o.row = row
      BY <2>2, <3>3, <3>4
    <3>6. journal'.observations \in Seq(Observation)
      BY <2>3, JournalParts
    <3>7. n \in Nat /\ n \in DOMAIN journal'.observations /\ o \in Observation
      BY <3>5, <3>6
    <3> HIDE DEF n
    <3>8. o.key \in Key /\ o.row \in Row /\ o = [key |-> o.key, row |-> o.row]
      BY <3>7 DEF Observation
    <3>9. PICK y \in Receipt :
            /\ y = [observation |-> n, key |-> o.key, row |-> o.row]
            /\ y # None /\ y.observation = n /\ y.key = o.key /\ y.row = o.row
      <4> DEFINE z == [observation |-> n, key |-> o.key, row |-> o.row]
      <4>1. z \in Receipt /\ z.observation = n /\ z.key = o.key /\ z.row = o.row
        BY <3>7, <3>8 DEF Receipt, Key
      <4>2. z = [observation |-> n, key |-> o.key, row |-> o.row]
        OBVIOUS
      <4> HIDE DEF z, o
      <4>3. QED
        BY <4>1, <4>2, NoneIsNoSweep
    <3>10. /\ x \in Knows /\ x.pc = "advance" /\ x.receipt = y /\ x.run = proc[p].run
           /\ x.index = proc[p].index /\ x.last = proc[p].last
      <4>1. x = [proc[p] EXCEPT !.pc = "advance", !.page = <<>>, !.receipt = y]
        BY <3>9
      <4> HIDE DEF x, o
      <4>2. <<>> \in Seq(Row)
        OBVIOUS
      <4>3. QED
        BY <1>1, <3>9, <4>1, <4>2 DEF Knows
    <3> HIDE DEF x
    <3>11. proc'[p] = x
      BY <1>1, <3>2
    <3>12. Evidence(y)'
      BY <3>7, <3>8, <3>9 DEF Evidence, n
    <3>13. Target(p)' = Target(p)
      BY <1>1, <3>10, <3>11 DEF Target
    <3>14. Working(p)'
      BY <1>1, <3>1, <3>3, <3>5, <3>9, <3>10, <3>11, <3>12, <3>13 DEF IInv, Working
    <3>15. x.run # None => runs[x.run] # None /\ x.index \in DOMAIN runs[x.run].roster
      BY <3>10 DEF IInv, TypeOK
    <3>16. QED
      BY <3>2, <3>10, <3>14, <3>15
  <2>8. QED
    BY <2>6, <2>7
<1>4. QED
  BY <1>2, <1>3

\* A step of the checkpoint moves the cursor by one target, whose evidence the process
\* has, or nothing.
LEMMA AdvanceKeeps ==
  ASSUME IInv, NEW p \in Process, Advance(p)
  PROVE  /\ IInv'
         /\ steps \subseteq steps'
         /\ \A r \in RunId : runs[r] # None =>
              \/ runs'[r].next - runs[r].next = Cardinality(steps' \ steps)
              \/ runs'[r] = runs[r]
<1>1. /\ proc[p].pc = "advance" /\ proc[p] \in Knows /\ proc \in [Process -> Knows]
      /\ UNCHANGED <<source, changes, journal>>
      /\ TypeOK /\ runs \in [RunId -> Run \cup {None}] /\ steps \subseteq Step /\ journal \in Journal
      /\ Working(p) /\ p \in Sweeper
  BY DEF Advance, At, IInv, TypeOK, Knows, Working
<1>2. PICK r \in RunId : proc[p].run = r /\ runs[r] # None
  <2>1. proc[p].run # None
    BY <1>1 DEF Working
  <2>2. proc[p].run \in RunId
    BY <1>1, <2>1 DEF Knows
  <2>3. QED
    BY <1>1, <2>1, <2>2 DEF TypeOK
<1> DEFINE i == proc[p].index
<1>3. /\ i \in DOMAIN runs[r].roster /\ i <= proc[p].last /\ proc[p].last <= Len(runs[r].roster)
      /\ runs[r].roster \in Seq(Key) /\ runs[r] \in Run /\ runs[r].next \in Nat
      /\ proc[p].last \in Nat
  <2>1. runs[r] \in Run
    BY <1>1, <1>2
  <2>2. runs[r].roster \in Seq(Key) /\ runs[r].next \in Nat
    BY <2>1, RosterConstants DEF Run, Key
  <2>3. QED
    BY <1>1, <1>2, <2>1, <2>2 DEF Working, TypeOK, Knows
<1>4. i \in Nat /\ 1 <= i /\ Len(runs[r].roster) \in Nat
  BY <1>3
<1> DEFINE free == (\A s \in StepsOf(r) : s.index # i) /\ runs[r].next = i - 1
<1>5. CASE ~free
  <2>1. proc' = [proc EXCEPT ![p] = NoProc] /\ UNCHANGED <<steps, runs>>
    BY <1>2, <1>5 DEF Advance
  <2>2. IInv'
    BY <1>1, <2>1, StopsKeeps
  <2>3. QED
    BY <2>1, <2>2
<1>6. CASE free
  <2> DEFINE e == NewStep(p)
             y == proc[p].receipt
             x == Onward(p)
  <2>1. /\ steps' = steps \cup {e} /\ runs' = [runs EXCEPT ![r].next = i]
        /\ proc' = [proc EXCEPT ![p] = x]
    BY <1>2, <1>6 DEF Advance
  <2>2. /\ y \in Receipt /\ Evidence(y) /\ runs[r].roster[i] \in Aliases(y.row)
    <3>1. y # None /\ Evidence(y) /\ Target(p) \in Aliases(y.row)
      BY <1>1 DEF Working
    <3>2. QED
      BY <1>1, <1>2, <3>1 DEF Knows, Target
  <2>3. e = [run |-> r, index |-> i, receipt |-> y]
    BY <1>2 DEF NewStep
  <2>4. e \in Step /\ e.run = r /\ e.index = i /\ e.receipt = y
    BY <1>4, <2>2, <2>3 DEF Step
  <2>5. e \notin steps
    BY <1>6, <2>4 DEF StepsOf
  <2>6. /\ runs' \in [RunId -> Run \cup {None}]
        /\ runs'[r] # None /\ runs'[r].roster = runs[r].roster /\ runs'[r].next = i
        /\ \A q \in RunId \ {r} : runs'[q] = runs[q]
    <3> DEFINE z == [runs[r] EXCEPT !.next = i]
    <3>1. z \in Run /\ z.roster = runs[r].roster /\ z.next = i
      BY <1>3, <1>4 DEF Run
    <3>2. runs' = [runs EXCEPT ![r] = z]
      BY <2>1
    <3> HIDE DEF z
    <3>3. QED
      BY <1>1, <3>1, <3>2, NoneIsNoSweep
  <2>7. Onwards
    BY <1>1, <2>6 DEF Onwards, Extends
  <2>8. x \in Knows /\ (x.run # None => x.run = r /\ x.index \in DOMAIN runs'[r].roster)
    <3>1. CASE i < proc[p].last
      <4>1. x = [proc[p] EXCEPT !.pc = "fetch", !.index = @ + 1, !.receipt = None]
        BY <3>1 DEF Onward
      <4>2. x \in Knows
        <5>1. PICK m \in Nat : m = proc[p].index + 1
          BY <1>4
        <5>2. x = [proc[p] EXCEPT !.pc = "fetch", !.index = m, !.receipt = None]
          BY <4>1, <5>1
        <5> HIDE DEF x
        <5>3. QED
          BY <1>1, <5>2 DEF Knows
      <4>3. x.run = r /\ x.index = i + 1
        BY <1>1, <1>2, <4>1 DEF Knows
      <4>4. i + 1 \in DOMAIN runs[r].roster
        BY <1>3, <1>4, <3>1
      <4>5. QED
        BY <2>6, <4>2, <4>3, <4>4
    <3>2. CASE ~(i < proc[p].last)
      <4>1. x = NoProc
        BY <3>2 DEF Onward
      <4>2. QED
        BY <4>1, IdleTyped
    <3>3. QED
      BY <3>1, <3>2
  <2>9. steps' \subseteq Step
    BY <1>1, <2>1, <2>4
  <2>10. proc'[p] = x
    BY <1>1, <2>1
  <2>11. Working(p)'
    <3>1. CASE i < proc[p].last
      <4>1. x = [proc[p] EXCEPT !.pc = "fetch", !.index = @ + 1, !.receipt = None]
        BY <3>1 DEF Onward
      <4>2. x.pc = "fetch" /\ x.run = r /\ x.index = i + 1 /\ x.last = proc[p].last
        BY <1>1, <1>2, <4>1 DEF Knows
      <4> HIDE DEF x
      <4>3. x.run # None /\ x.index <= x.last /\ x.last <= Len(runs'[r].roster)
        BY <1>2, <1>3, <1>4, <2>6, <3>1, <4>2, NoneIsNoSweep
      <4>4. QED
        BY <1>1, <2>10, <4>2, <4>3 DEF Working
    <3>2. CASE ~(i < proc[p].last)
      <4>1. x = NoProc
        BY <3>2 DEF Onward
      <4>2. QED
        BY <2>10, <4>1, IdleTyped DEF Working
    <3>3. QED
      BY <3>1, <3>2
  <2> HIDE DEF e, x, i, free
  <2>12. TypeOK'
    <3>1. x.run # None => runs'[x.run] # None /\ x.index \in DOMAIN runs'[x.run].roster
      BY <2>6, <2>8
    <3>2. QED
      BY <1>1, <2>1, <2>6, <2>7, <2>8, <2>9, <3>1, TypeMoved
  <2>13. \A q \in Process : Working(q)'
    BY <2>1, <2>7, <2>11, OthersWork
  <2>14. \A s \in steps' : runs'[s.run] # None
    BY <1>1, <2>1, <2>4, <2>6 DEF IInv, Step
  <2>15. Done(r)'
    <3>1. StepsOf(r)' = StepsOf(r) \cup {e}
      BY <2>1, <2>4 DEF StepsOf
    <3>2. /\ {s.index : s \in StepsOf(r)} = 1..runs[r].next
          /\ \A s \in StepsOf(r) : Evidence(s.receipt)
          /\ \A s \in StepsOf(r) : runs[r].roster[s.index] \in Aliases(s.receipt.row)
      BY <1>2 DEF IInv, Done, VerifiedPrefix
    <3>3. runs[r].next = i - 1
      BY <1>6 DEF free
    <3>4. {s.index : s \in StepsOf(r)'} = 1..i
      <4>1. \A j : j \in 1..i <=> j \in 1..runs[r].next \/ j = i
        BY <1>3, <1>4, <3>3
      <4>2. \A j : j \in {s.index : s \in StepsOf(r)'} <=> j \in {s.index : s \in StepsOf(r)} \/ j = i
        BY <2>4, <3>1
      <4>3. \A j : j \in {s.index : s \in StepsOf(r)'} <=> j \in 1..i
        BY <3>2, <4>1, <4>2
      <4>4. QED
        BY <4>3
    <3>5. \A z : Evidence(z) => Evidence(z)'
      BY <1>1 DEF Evidence
    <3>6. \A s \in StepsOf(r)' : /\ Evidence(s.receipt)'
                                 /\ runs'[r].roster[s.index] \in Aliases(s.receipt.row)
      BY <2>2, <2>4, <2>6, <3>1, <3>2, <3>5
    <3>7. QED
      BY <2>6, <3>4, <3>6 DEF Done, VerifiedPrefix
  <2>16. ASSUME NEW q \in RunId, q # r PROVE Done(q)'
    <3>1. StepsOf(q)' = StepsOf(q)
      BY <2>1, <2>4, <2>16 DEF StepsOf
    <3>2. QED
      BY <2>6, <2>7, <2>16, <3>1, DoneKept DEF IInv
  <2>17. OneOpenSweep'
    <3>1. \A q \in RunId : Unfinished(q)' => Unfinished(q)
      <4>1. Unfinished(r)' => Unfinished(r)
        BY <1>2, <1>3, <1>4, <1>6, <2>6 DEF Unfinished, free
      <4>2. \A q \in RunId \ {r} : Unfinished(q)' => Unfinished(q)
        BY <2>6 DEF Unfinished
      <4>3. QED
        BY <4>1, <4>2
    <3>2. QED
      BY <3>1 DEF IInv, OneOpenSweep
  <2>18. IInv'
    BY <1>1, <2>12, <2>13, <2>14, <2>15, <2>16, <2>17 DEF IInv
  <2>19. \A q \in RunId : \/ runs'[q].next - runs[q].next = Cardinality(steps' \ steps)
                          \/ runs'[q] = runs[q]
    <3>1. steps' \ steps = {e}
      BY <2>1, <2>5
    <3>2. Cardinality(steps' \ steps) = 1
      BY <3>1, FS_Singleton
    <3>3. runs'[r].next - runs[r].next = 1
      BY <1>3, <1>4, <1>6, <2>6 DEF free
    <3>4. QED
      BY <2>6, <3>2, <3>3
  <2>20. QED
    BY <2>1, <2>18, <2>19
<1>7. QED
  BY <1>5, <1>6

-----------------------------------------------------------------------------
\* The inductive invariant holds at the start.
LEMMA InvariantInit == Init => IInv
<1> SUFFICES ASSUME Init PROVE IInv
  OBVIOUS
<1>1. /\ journal = EmptyJournal /\ changes = 0 /\ steps = {}
      /\ runs = [r \in RunId |-> None] /\ proc = [p \in Process |-> NoProc]
      /\ source \in [Facility -> Row] /\ \A f \in Facility : source[f] \in Published[f]
  BY DEF Init
<1>2. Sound(journal) /\ journal \in Journal
  BY <1>1, EmptySound DEF Sound
<1>3. TypeOK
  <2>1. proc \in [Process -> Knows] /\ \A p \in Process : proc[p].run = None
    BY <1>1, IdleTyped
  <2>2. changes \in 0..MaxChanges
    BY <1>1, RosterConstants
  <2>3. QED
    BY <1>1, <1>2, <2>1, <2>2 DEF TypeOK, Knows
<1>4. \A p \in Process : Working(p)
  BY <1>1, IdleTyped DEF Working
<1>5. (\A r \in RunId : Done(r)) /\ OneOpenSweep
  BY <1>1 DEF Done, OneOpenSweep, Unfinished
<1>6. QED
  BY <1>1, <1>2, <1>3, <1>4, <1>5 DEF IInv

\* A step of the sweeps or the lists keeps the inductive invariant; the checkpoint gains
\* steps, by which the cursors have moved.
LEMMA InvariantStep ==
  ASSUME IInv, [Next]_vars
  PROVE  /\ IInv'
         /\ steps \subseteq steps'
         /\ \A r \in RunId : runs[r] # None =>
              \/ runs'[r].next - runs[r].next = Cardinality(steps' \ steps)
              \/ runs'[r] = runs[r]
<1>1. CASE UNCHANGED vars
  <2>1. UNCHANGED <<source, changes, journal, runs, steps, proc>>
    BY <1>1 DEF vars
  <2>2. TypeOK'
    BY <2>1 DEF IInv, TypeOK
  <2>3. (\A p \in Process : Working(p)') /\ \A r \in RunId : Done(r)'
    BY <2>1 DEF IInv, Working, Target, Evidence, Done, VerifiedPrefix, StepsOf
  <2>4. QED
    BY <2>1, <2>2, <2>3 DEF IInv, OneOpenSweep, Unfinished
<1>2. ASSUME NEW f \in Facility, Republish(f) PROVE IInv' /\ UNCHANGED <<steps, runs>>
  BY <1>2, RepublishKeeps DEF Republish
<1>3. ASSUME NEW p \in Sweeper, NEW r \in RunId, NEW roster \in Rosters, NEW budget \in Budgets,
             StartSweep(p, r, roster, budget)
      PROVE  /\ IInv' /\ UNCHANGED steps
             /\ \A q \in RunId : runs[q] # None => runs'[q] = runs[q]
  <2>1. IInv'
    BY <1>3, StartKeeps
  <2>2. QED
    BY <1>3, <2>1 DEF StartSweep, IInv, TypeOK
<1>4. ASSUME NEW p \in Sweeper, NEW r \in RunId, NEW roster \in Rosters, NEW budget \in Budgets,
             ResumeSweep(p, r, roster, budget)
      PROVE  IInv' /\ UNCHANGED <<steps, runs>>
  BY <1>4, ResumeKeeps DEF ResumeSweep
<1>5. ASSUME NEW p \in Process, FetchTarget(p) PROVE IInv' /\ UNCHANGED <<steps, runs>>
  BY <1>5, FetchTargetKeeps DEF FetchTarget
<1>6. ASSUME NEW p \in Process, FetchPage(p) PROVE IInv' /\ UNCHANGED <<steps, runs>>
  BY <1>6, FetchPageKeeps DEF FetchPage
<1>7. ASSUME NEW p \in Process, Record(p) PROVE IInv' /\ UNCHANGED <<steps, runs>>
  BY <1>7, RecordKeeps DEF Record
<1>8. ASSUME NEW p \in Process, Stops(p) PROVE IInv' /\ UNCHANGED <<steps, runs>>
  BY <1>8, StopsKeeps DEF Stops
<1>9. CASE Next
  BY <1>2, <1>3, <1>4, <1>5, <1>6, <1>7, <1>8, <1>9, AdvanceKeeps DEF Next
<1>10. QED
  BY <1>1, <1>9

\* Every reachable state satisfies the inductive invariant.
THEOREM SweepsInductive == Spec => []IInv
<1>1. IInv /\ [Next]_vars => IInv'
  BY InvariantStep
<1>2. QED
  BY InvariantInit, <1>1, PTL DEF Spec

\* Every variable keeps its type (smarts_evidence_ledger.py, smarts_collection.py).
THEOREM SweepsTypeCorrect == Spec => []TypeOK
<1>1. IInv => TypeOK
  BY DEF IInv
<1>2. QED
  BY <1>1, SweepsInductive, PTL

\* The journal is always one that verify_smarts_journal accepts, and the observations
\* that share an identifier have one source, for pages of any length in any order.
THEOREM JournalStaysSound == Spec => []JournalIsSound
<1>1. IInv => JournalIsSound
  <2> SUFFICES ASSUME IInv PROVE JournalIsSound
    OBVIOUS
  <2>1. Sound(journal)
    BY DEF IInv
  <2>2. Verifies(journal) /\ Bound(journal) /\ journal.observations \in Seq(Observation)
    BY <2>1, JournalParts DEF Sound
  <2>3. OneSourcePerAlias
    <3> SUFFICES ASSUME NEW i \in DOMAIN journal.observations
        PROVE  LET o == journal.observations[i] IN
               /\ \A a \in Aliases(o.row) : journal.aliases[a] = o.key
               /\ \A k \in 1..i : Aliases(journal.observations[k].row) \cap Aliases(o.row) # {} =>
                                    journal.observations[k].key = o.key
      BY DEF OneSourcePerAlias
    <3>1. \A k \in 1..i : k \in DOMAIN journal.observations
      BY <2>2
    <3>2. QED
      BY <2>2, <3>1 DEF Bound
  <2>4. QED
    BY <2>2, <2>3 DEF JournalIsSound, VerifierAccepts
<1>2. QED
  BY <1>1, SweepsInductive, PTL

\* A sweep's cursor counts its steps, each has the observation of its target, and one
\* sweep at most is open, wherever the processes stop.
THEOREM CheckpointHolds == Spec => []CheckpointHasEvidence
<1>1. IInv => CheckpointHasEvidence
  BY DEF IInv, Done, CheckpointHasEvidence
<1>2. QED
  BY <1>1, SweepsInductive, PTL

\* What is done stays done with its first receipt, whoever else works on the sweep.
THEOREM StepsStay == Spec => StepsAreFinal
<1>1. IInv /\ [Next]_vars =>
        [/\ steps \subseteq steps'
         /\ \A r \in RunId : runs[r] # None =>
              runs'[r].next - runs[r].next = Cardinality(steps' \ steps)
              \/ runs'[r] = runs[r]]_vars
  BY InvariantStep
<1>2. QED
  BY <1>1, SweepsInductive, PTL DEF Spec, StepsAreFinal

-----------------------------------------------------------------------------
(* The parcel rehearsal.                                                   *)

\* What a probe over which nothing moved was told is what one state of the layer tells,
\* and until it is complete that state is the present one.
Steadily(p) ==
  probe[p] # Nil /\ probe[p].steady =>
    \E records \in SUBSET work.ids :
      /\ \A k \in 1 .. Len(probe[p].answers) :
           probe[p].answers[k] = Response(records, Kinds[k], probe[p].size)
      /\ Running(p) => records = live

\* A stored observation was made, and is the only one of its request.
Stored ==
  \A o \in rows.observations :
    /\ probe[o[1]] # Nil /\ o[2] <= Len(probe[o[1]].answers)
    /\ \A q \in rows.observations : SameRequest(o, q) => o = q

\* An assessment rests on stored observations, and would be the same if made again.
Assessed(a) ==
  /\ a.observations \subseteq rows.observations
  /\ \A o \in a.observations : InPlan(o, a.snapshot, a.size)
  /\ a.status = Status(Gaps(a.snapshot, a.size, a.observations, a.manifest))
  /\ a.manifest # Nil => /\ a.manifest \in done /\ a.manifest.snapshot = a.snapshot
                         /\ Reconciles(a.manifest, a.observations)

\* An execution lists as many records as were counted, no record twice, misses no more
\* than were deleted, and has all that its receipts name.
Executed(e) ==
  LET ids == FlattenSeq(e.pages) IN
  /\ e.start = Cardinality(ToSet(ids)) /\ IsInjective(ids)
  /\ Cardinality(e.throughout \ ToSet(ids)) <= Cardinality(e.deleted)
  /\ Receipts(e) \subseteq disk

\* What a rehearsal knows of the layer: what was there all the time is what was there at
\* first and not deleted since, and is there.
Watched ==
  /\ run.before \subseteq work.ids /\ run.start = Cardinality(run.before) /\ run.start > 0
  /\ run.throughout = run.before \ run.deleted /\ run.throughout \subseteq live
  /\ run.deleted \subseteq work.ids
  /\ ToSet(Observed) \subseteq live \cup run.deleted

\* What it has read is in order, and of the records there all the time no more are in
\* front of its place than it has read.
Ordered ==
  /\ \A i, k \in 1 .. Len(Observed) : i < k => Observed[i] < Observed[k]
  /\ Observed # <<>> =>
       Cardinality({r \in run.throughout : r <= Last(Observed)}) <= Len(Observed)

\* Pages are full until the last one, which ends with the count.
Paged ==
  /\ run.snapshot \in Snapshots
  /\ CheckpointAfter < PagesFor(run.start) /\ InjectAt < PagesFor(run.start)
  /\ IF run.at = "count"
     THEN Len(run.pages) = PagesFor(run.start) /\ Len(Observed) = run.start
     ELSE Len(run.pages) < PagesFor(run.start) /\ Len(Observed) = Len(run.pages) * PageSize
  /\ Len(run.pages) > InjectAt => InjectAt \in run.retried

\* What it has read is retained.
Kept ==
  /\ Artifact(0, "starting_count", <<run.start>>) \in disk
  /\ \A i \in DOMAIN run.pages : Artifact(i, "page", run.pages[i]) \in disk

\* What is known of the rehearsal in progress.
Underway == run.at # "idle" => Watched /\ Ordered /\ Paged /\ Kept

\* The invariant: RehearsalTypeOK and the parts above; and no rehearsal's check has
\* refused the data of a layer nobody edited.
ParcelInv ==
  /\ RehearsalTypeOK
  /\ \A p \in Probes : Steadily(p)
  /\ Stored
  /\ \A a \in rows.assessments : Assessed(a)
  /\ \A e \in done : Executed(e)
  /\ Underway
  /\ "steady" \notin alarms

-----------------------------------------------------------------------------
\* Where a record is in the order of object IDs: each place is taken by one record.
LEMMA Ranked ==
  ASSUME NEW S, S \subseteq Nat, IsFiniteSet(S), NEW n \in 1 .. Cardinality(S)
  PROVE  Nth(S, n) \in S /\ Cardinality({r \in S : r <= Nth(S, n)}) = n
<1> DEFINE Up(id) == {r \in S : r <= id}
           rank == [id \in S |-> Cardinality(Up(id))]
           T == 1 .. Cardinality(S)
<1>1. Cardinality(S) \in Nat /\ IsFiniteSet(T) /\ Cardinality(T) = Cardinality(S)
  <2>1. Cardinality(S) \in Nat
    BY FS_CardinalityType
  <2>2. QED
    BY <2>1, FS_Interval
<1>0. \A r \in S : r \in Nat
  OBVIOUS
<1>2. ASSUME NEW id \in S
      PROVE  /\ IsFiniteSet(Up(id)) /\ Cardinality(Up(id)) \in T
  <2>1. Up(id) \in SUBSET S /\ {id} \in SUBSET Up(id)
    OBVIOUS
  <2>2. /\ IsFiniteSet(Up(id)) /\ Cardinality(Up(id)) <= Cardinality(S)
        /\ Cardinality({id}) <= Cardinality(Up(id)) /\ Cardinality({id}) = 1
        /\ Cardinality(Up(id)) \in Nat
    <3> HIDE DEF Up
    <3>1. IsFiniteSet(Up(id)) /\ Cardinality(Up(id)) <= Cardinality(S)
      BY <2>1, FS_Subset
    <3>2. QED
      BY <2>1, <3>1, FS_Subset, FS_Singleton, FS_CardinalityType
  <2>3. QED
    BY <1>1, <2>2
<1>3. ASSUME NEW id \in S, NEW other \in S, id < other
      PROVE  Cardinality(Up(id)) < Cardinality(Up(other))
  <2>0. ASSUME NEW r \in Up(id) PROVE r \in Up(other)
    BY <1>0, <1>3
  <2>1. Up(id) \subseteq Up(other) /\ other \in Up(other) /\ other \notin Up(id)
    <3>1. other \in Up(other) /\ other \notin Up(id)
      BY <1>0, <1>3
    <3> HIDE DEF Up
    <3>2. QED
      BY <2>0, <3>1
  <2>2. /\ Cardinality(Up(id)) <= Cardinality(Up(other))
        /\ Cardinality(Up(other)) # Cardinality(Up(id))
    <3>1. IsFiniteSet(Up(other))
      BY <1>2
    <3> HIDE DEF Up
    <3>2. QED
      BY <2>1, <3>1, FS_Subset
  <2>3. Cardinality(Up(id)) \in Nat /\ Cardinality(Up(other)) \in Nat
    <3> HIDE DEF Up
    <3>1. QED
      BY <1>1, <1>2
  <2>4. QED
    <3> HIDE DEF Up
    <3>1. QED
      BY <2>2, <2>3
<1>4. rank \in Injection(S, T)
  <2>1. rank \in [S -> T]
    <3> HIDE DEF Up
    <3>1. QED
      BY <1>2
  <2>2. ASSUME NEW id \in S, NEW other \in S, rank[id] = rank[other] PROVE id = other
    <3>1. Cardinality(Up(id)) = Cardinality(Up(other))
      BY <2>2
    <3>2. ~ (id < other) /\ ~ (other < id)
      <4> HIDE DEF Up
      <4>1. Cardinality(Up(id)) \in Nat /\ Cardinality(Up(other)) \in Nat
        BY <1>1, <1>2
      <4>2. QED
        BY <1>3, <3>1, <4>1
    <3>3. QED
      BY <3>2
  <2>3. QED
    <3> HIDE DEF rank, T
    <3>1. QED
      BY <2>1, <2>2 DEF Injection, IsInjective
<1>5. rank \in Surjection(S, T)
  <2> HIDE DEF rank
  <2>1. QED
    BY <1>1, <1>4, FS_Injection
<1>6. \E id \in S : rank[id] = n
  <2> HIDE DEF rank
  <2>1. QED
    BY <1>5 DEF Surjection
<1>7. \E id \in S : Cardinality({r \in S : r <= id}) = n
  BY <1>6
<1>8. QED
  BY <1>7, Zenon DEF Nth

\* Later places have greater object IDs.
LEMMA NthIncreases ==
  ASSUME NEW S, S \subseteq Nat, IsFiniteSet(S),
         NEW m \in 1 .. Cardinality(S), NEW n \in 1 .. Cardinality(S), m < n
  PROVE  Nth(S, m) < Nth(S, n)
<1> DEFINE A == {r \in S : r <= Nth(S, m)}
           B == {r \in S : r <= Nth(S, n)}
<1>1. /\ Nth(S, m) \in S /\ Cardinality(A) = m
      /\ Nth(S, n) \in S /\ Cardinality(B) = n
  BY Ranked
<1>0. \A r \in S : r \in Nat
  OBVIOUS
<1>9. Nth(S, m) \in Nat /\ Nth(S, n) \in Nat
  <2> HIDE DEF A, B
  <2>1. QED
    BY <1>0, <1>1
<1>2. SUFFICES ASSUME Nth(S, n) <= Nth(S, m) PROVE FALSE
  <2> HIDE DEF A, B
  <2>1. QED
    BY <1>9
<1>3. B \subseteq A /\ A \subseteq S
  <2>1. ASSUME NEW r \in B PROVE r \in A
    BY <1>0, <1>9, <1>2
  <2>2. ASSUME NEW r \in A PROVE r \in S
    OBVIOUS
  <2> HIDE DEF A, B
  <2>3. QED
    BY <2>1, <2>2
<1>4. Cardinality(B) <= Cardinality(A)
  <2> HIDE DEF A, B
  <2>1. IsFiniteSet(A)
    BY <1>3, FS_Subset
  <2>2. QED
    BY <1>3, <2>1, FS_Subset
<1>5. QED
  BY <1>1, <1>4

\* A page lists the records of S at the places behind its offset.
Lists(page, S, offset, size) ==
  LET count == Cardinality(S) IN
  /\ page \in Seq(Nat) /\ page \in Seq(S)
  /\ count \in Nat
  /\ Len(page) = AtMost(AtLeast(count, offset) - offset, size)
  /\ \A i \in 1 .. Len(page) :
       /\ offset + i \in 1 .. count /\ page[i] = Nth(S, offset + i) /\ page[i] \in S
       /\ Cardinality({r \in S : r <= page[i]}) = offset + i
  /\ \A i, k \in 1 .. Len(page) : i < k => page[i] < page[k]

\* A page of a finite set of numbers does.
LEMMA PageLists ==
  ASSUME NEW S, S \subseteq Nat, IsFiniteSet(S), NEW offset \in Nat, NEW size \in Nat
  PROVE  Lists(Page(S, offset, size), S, offset, size)
<1> DEFINE count == Cardinality(S)
           n == AtMost(AtLeast(count, offset) - offset, size)
           page == [i \in 1 .. n |-> Nth(S, offset + i)]
<1>0. \A r \in S : r \in Nat
  OBVIOUS
<1>1. count \in Nat
  BY FS_CardinalityType
<1>2. n \in Nat /\ \A i \in 1 .. n : offset + i \in 1 .. count
  <2> HIDE DEF count
  <2>1. QED
    BY <1>1 DEF AtMost, AtLeast
<1> HIDE DEF n
<1>3. \A i \in 1 .. n : /\ Nth(S, offset + i) \in S
                        /\ Cardinality({r \in S : r <= Nth(S, offset + i)}) = offset + i
  BY <1>2, Ranked
<1>4. page \in Seq(S) /\ Len(page) = n /\ \A i \in 1 .. n : page[i] = Nth(S, offset + i)
  <2>1. \A i \in 1 .. n : Nth(S, offset + i) \in S
    BY <1>3
  <2>2. page \in [1 .. n -> S]
    BY <2>1
  <2>3. QED
    BY <1>2, <2>2
<1>5. page \in Seq(Nat)
  <2>1. page \in [1 .. n -> S] /\ n \in Nat
    BY <1>2, <1>3
  <2>2. page \in [1 .. n -> Nat]
    BY <1>0, <2>1
  <2>3. QED
    BY <2>1, <2>2
<1>6. \A i, k \in 1 .. n : i < k => page[i] < page[k]
  <2> SUFFICES ASSUME NEW i \in 1 .. n, NEW k \in 1 .. n, i < k PROVE page[i] < page[k]
    OBVIOUS
  <2>1. offset + i \in 1 .. Cardinality(S) /\ offset + k \in 1 .. Cardinality(S)
        /\ offset + i < offset + k
    BY <1>2
  <2>2. QED
    BY <1>4, <2>1, NthIncreases
<1>7. Page(S, offset, size) = page
  BY DEF Page, n
<1> HIDE DEF page
<1>8. Lists(page, S, offset, size)
  BY <1>1, <1>2, <1>3, <1>4, <1>5, <1>6 DEF n, Lists
<1>9. QED
  BY <1>7, <1>8

-----------------------------------------------------------------------------
\* f holds what the first pages come to, up to page m.
IsJoin(pages, m, f) ==
  f = [i \in 1 .. m |-> IF i = 1 THEN pages[i] ELSE f[i - 1] \o pages[i]]

\* There is such a function, however many pages.
LEMMA JoinExists ==
  ASSUME NEW pages, NEW m \in Nat
  PROVE  \E f : IsJoin(pages, m, f)
<1> DEFINE T == {i \in Nat : ~\E f : IsJoin(pages, i, f)}
<1>1. SUFFICES ASSUME T # {} PROVE FALSE
  OBVIOUS
<1>2. PICK i \in T : \A h \in T : i <= h
  <2>1. T \subseteq Nat
    OBVIOUS
  <2> HIDE DEF T
  <2>2. QED
    BY <1>1, <2>1, LeastNumber
<1>3. CASE i = 0
  <2> DEFINE f == [n \in 1 .. 0 |-> pages[n]]
  <2>1. \A n \in 1 .. 0 : FALSE
    OBVIOUS
  <2>2. f = [n \in 1 .. 0 |-> IF n = 1 THEN pages[n] ELSE f[n - 1] \o pages[n]]
    BY <2>1
  <2>3. QED
    BY <1>2, <1>3, <2>2 DEF IsJoin
<1>4. CASE i # 0
  <2>1. i - 1 \in Nat /\ i - 1 \notin T
    BY <1>2, <1>4
  <2>2. PICK f : IsJoin(pages, i - 1, f)
    BY <2>1
  <2> DEFINE v(n) == IF n = i THEN (IF n = 1 THEN pages[n] ELSE f[n - 1] \o pages[n])
                     ELSE f[n]
             g == [n \in 1 .. i |-> v(n)]
             u(n) == IF n = 1 THEN pages[n] ELSE g[n - 1] \o pages[n]
  <2>3. ASSUME NEW n \in 1 .. i PROVE v(n) = u(n)
    <3>1. CASE n = i /\ n # 1
      <4>1. n - 1 \in 1 .. i /\ n - 1 # i
        BY <1>4, <2>1, <3>1
      <4>2. g[n - 1] = f[n - 1]
        BY <3>1, <4>1
      <4> HIDE DEF g
      <4>3. QED
        BY <3>1, <4>1, <4>2
    <3>2. CASE n # i /\ n # 1
      <4>1. n \in 1 .. i - 1 /\ n - 1 \in 1 .. i /\ n - 1 # i
        BY <2>1, <3>2
      <4>2. g[n - 1] = f[n - 1]
        BY <4>1
      <4>3. f[n] = f[n - 1] \o pages[n]
        BY <2>2, <3>2, <4>1, Zenon DEF IsJoin
      <4> HIDE DEF g
      <4>4. QED
        BY <3>2, <4>2, <4>3
    <3>3. CASE n # i /\ n = 1
      <4>1. 1 \in 1 .. i - 1
        BY <2>1, <3>3
      <4>2. f[1] = pages[1]
        BY <2>2, <4>1, Zenon DEF IsJoin
      <4>3. QED
        BY <3>3, <4>2
    <3>4. CASE n = i /\ n = 1
      BY <3>4
    <3>5. QED
      BY <3>1, <3>2, <3>3, <3>4
  <2>4. g = [n \in 1 .. i |-> u(n)]
    <3> HIDE DEF v, u
    <3>1. QED
      BY <2>3
  <2>5. IsJoin(pages, i, g)
    BY <2>4, Zenon DEF IsJoin
  <2>6. QED
    BY <1>2, <2>5
<1>5. QED
  BY <1>3, <1>4

\* f is what the first pages come to, and FlattenSeq what all of them do.
Joins(pages, f) ==
  /\ FlattenSeq(pages) = f[Len(pages)]
  /\ \A i \in 1 .. Len(pages) : f[i] = IF i = 1 THEN pages[i] ELSE f[i - 1] \o pages[i]

\* FlattenSeq goes on from page to page.
LEMMA PagesJoin ==
  ASSUME NEW T, NEW pages \in Seq(T), pages # <<>>
  PROVE  \E f : Joins(pages, f)
<1> DEFINE f == CHOOSE f : IsJoin(pages, Len(pages), f)
<1>1. IsJoin(pages, Len(pages), f)
  <2>1. Len(pages) \in Nat
    OBVIOUS
  <2>2. QED
    BY <2>1, JoinExists
<1>2. Len(pages) # 0
  OBVIOUS
<1>3. FlattenSeq(pages) = f[Len(pages)]
  BY <1>2, Zenon DEF FlattenSeq, IsJoin
<1> HIDE DEF f
<1>4. \A i \in 1 .. Len(pages) : f[i] = IF i = 1 THEN pages[i] ELSE f[i - 1] \o pages[i]
  BY <1>1, Zenon DEF IsJoin
<1>5. QED
  BY <1>3, <1>4 DEF Joins

\* Nothing comes of no pages.
LEMMA FlattenEmpty == FlattenSeq(<<>>) = <<>>
BY DEF FlattenSeq

\* Pages of records come to a sequence of records.
LEMMA FlattenType ==
  ASSUME NEW T, NEW pages \in Seq(Seq(T))
  PROVE  FlattenSeq(pages) \in Seq(T)
<1>1. CASE pages = <<>>
  <2>1. FlattenSeq(pages) = <<>>
    BY <1>1, FlattenEmpty
  <2>2. <<>> \in Seq(T)
    OBVIOUS
  <2>3. QED
    BY <2>1, <2>2, Zenon
<1>2. CASE pages # <<>>
  <2>1. PICK f : Joins(pages, f)
    BY <1>2, PagesJoin
  <2> DEFINE B == {i \in 1 .. Len(pages) : f[i] \notin Seq(T)}
  <2>2. B = {}
    <3>1. SUFFICES ASSUME B # {} PROVE FALSE
      OBVIOUS
    <3>2. PICK i \in B : \A h \in B : i <= h
      <4>1. B \subseteq Nat
        OBVIOUS
      <4> HIDE DEF B
      <4>2. QED
        BY <3>1, <4>1, LeastNumber
    <3>3. pages[i] \in Seq(T)
      OBVIOUS
    <3>4. f[i] = IF i = 1 THEN pages[i] ELSE f[i - 1] \o pages[i]
      BY <2>1 DEF Joins
    <3>5. i # 1
      BY <3>3, <3>4
    <3>6. i - 1 \in 1 .. Len(pages) /\ i - 1 \notin B
      BY <3>2, <3>5
    <3>7. f[i - 1] \in Seq(T)
      BY <3>6
    <3>8. f[i - 1] \o pages[i] \in Seq(T)
      BY <3>3, <3>7
    <3>9. f[i] \in Seq(T)
      BY <3>4, <3>5, <3>8, Zenon
    <3>10. QED
      BY <3>2, <3>9
  <2>3. Len(pages) \in 1 .. Len(pages)
    BY <1>2
  <2>4. QED
    BY <2>1, <2>2, <2>3 DEF Joins
<1>3. QED
  BY <1>1, <1>2

\* One page more goes to the end.
LEMMA FlattenAppend ==
  ASSUME NEW T, NEW pages \in Seq(Seq(T)), NEW ids \in Seq(T)
  PROVE  FlattenSeq(Append(pages, ids)) = FlattenSeq(pages) \o ids
<1> DEFINE more == Append(pages, ids)
           n == Len(pages)
<1>1. /\ more \in Seq(Seq(T)) /\ more # <<>> /\ Len(more) = n + 1 /\ n \in Nat
      /\ more[n + 1] = ids /\ \A i \in 1 .. n : more[i] = pages[i]
  <2>1. more \in Seq(Seq(T))
    OBVIOUS
  <2>2. Len(more) = n + 1 /\ n \in Nat
    OBVIOUS
  <2>3. more[n + 1] = ids /\ \A i \in 1 .. n : more[i] = pages[i]
    BY SMTT(30)
  <2>4. more # <<>>
    BY <2>2
  <2>5. QED
    BY <2>1, <2>2, <2>3, <2>4
<1>2. PICK g : Joins(more, g)
  <2> HIDE DEF more
  <2>1. QED
    BY <1>1, PagesJoin
<1> HIDE DEF more
<1>3. n + 1 \in 1 .. Len(more) /\ \A i \in 1 .. n : i \in 1 .. Len(more)
  BY <1>1
<1>4. /\ FlattenSeq(more) = g[n + 1]
      /\ g[n + 1] = IF n + 1 = 1 THEN ids ELSE g[n] \o ids
  <2>1. n + 1 - 1 = n
    BY <1>1
  <2> HIDE DEF n
  <2>2. QED
    BY <1>1, <1>2, <1>3, <2>1 DEF Joins
<1>5. CASE pages = <<>>
  <2>1. FlattenSeq(pages) = <<>> /\ n = 0
    BY <1>5, FlattenEmpty
  <2>2. FlattenSeq(more) = ids
    BY <1>4, <2>1
  <2>3. QED
    BY <2>1, <2>2 DEF more
<1>6. CASE pages # <<>>
  <2>1. PICK f : Joins(pages, f)
    BY <1>6, PagesJoin
  <2> DEFINE B == {i \in 1 .. n : f[i] # g[i]}
  <2>2. B = {}
    <3>1. SUFFICES ASSUME B # {} PROVE FALSE
      OBVIOUS
    <3>2. PICK i \in B : \A h \in B : i <= h
      <4>1. B \subseteq Nat
        OBVIOUS
      <4> HIDE DEF B
      <4>2. QED
        BY <3>1, <4>1, LeastNumber
    <3>3. f[i] = IF i = 1 THEN pages[i] ELSE f[i - 1] \o pages[i]
      BY <2>1 DEF Joins
    <3>4. g[i] = IF i = 1 THEN pages[i] ELSE g[i - 1] \o pages[i]
      BY <1>1, <1>2, <1>3 DEF Joins
    <3>5. i # 1
      BY <3>3, <3>4
    <3>6. i - 1 \in 1 .. n /\ i - 1 \notin B
      BY <3>2, <3>5
    <3>7. f[i - 1] = g[i - 1]
      BY <3>6
    <3>8. QED
      BY <3>3, <3>4, <3>7
  <2>3. n \in 1 .. n /\ n # 0
    BY <1>6
  <2>4. FlattenSeq(pages) = f[n] /\ f[n] = g[n]
    BY <2>1, <2>2, <2>3 DEF Joins
  <2>5. FlattenSeq(more) = g[n] \o ids
    <3> HIDE DEF n
    <3>1. n + 1 # 1
      BY <1>1, <2>3
    <3>2. QED
      BY <1>4, <3>1
  <2>6. QED
    BY <2>4, <2>5 DEF more
<1>7. QED
  BY <1>5, <1>6

\* Two sequences, one behind the other.
LEMMA Joined ==
  ASSUME NEW s \in Seq(Nat), NEW t \in Seq(Nat)
  PROVE  /\ s \o t \in Seq(Nat) /\ Len(s \o t) = Len(s) + Len(t)
         /\ Len(s) \in Nat /\ Len(t) \in Nat
         /\ \A i \in 1 .. Len(s) : (s \o t)[i] = s[i] /\ s[i] \in Nat
         /\ \A i \in Len(s) + 1 .. Len(s) + Len(t) :
              (s \o t)[i] = t[i - Len(s)] /\ i - Len(s) \in 1 .. Len(t)
OBVIOUS

\* A sequence lists as many elements as it is long if it lists none twice.
LEMMA Listed ==
  ASSUME NEW T, NEW s \in Seq(T), IsInjective(s)
  PROVE  IsFiniteSet(ToSet(s)) /\ Cardinality(ToSet(s)) = Len(s) /\ ToSet(s) \subseteq T
<1>1. IsFiniteSet(1 .. Len(s)) /\ Cardinality(1 .. Len(s)) = Len(s)
  <2>1. Len(s) \in Nat
    OBVIOUS
  <2> HIDE DEF IsInjective
  <2>2. QED
    BY <2>1, FS_Interval
<1>2. s \in [1 .. Len(s) -> ToSet(s)] /\ DOMAIN s = 1 .. Len(s)
  BY DEF ToSet
<1>3. s \in Surjection(1 .. Len(s), ToSet(s))
  BY <1>2 DEF Surjection, ToSet
<1>4. s \in Injection(1 .. Len(s), ToSet(s))
  BY <1>2 DEF Injection
<1>5. ToSet(s) \subseteq T
  BY DEF ToSet
<1>6. QED
  BY <1>1, <1>3, <1>4, <1>5, FS_Surjection

\* A sequence in order lists nothing twice.
LEMMA InOrder ==
  ASSUME NEW s \in Seq(Nat), \A i, k \in 1 .. Len(s) : i < k => s[i] < s[k]
  PROVE  IsInjective(s)
<1>1. SUFFICES ASSUME NEW a \in DOMAIN s, NEW b \in DOMAIN s, s[a] = s[b] PROVE a = b
  BY DEF IsInjective
<1>2. a \in 1 .. Len(s) /\ b \in 1 .. Len(s) /\ s[a] \in Nat /\ s[b] \in Nat
  OBVIOUS
<1>3. ~ (a < b) /\ ~ (b < a)
  BY <1>1, <1>2
<1>4. QED
  BY <1>2, <1>3

-----------------------------------------------------------------------------
\* A plan has four requests.
LEMMA FourKinds ==
  /\ Len(Kinds) = 4
  /\ Kinds[1] = "count" /\ Kinds[2] = "initial" /\ Kinds[3] = "next" /\ Kinds[4] = "replay"
BY DEF Kinds

\* What a probe knows.
LEMMA ProbeTyped ==
  ASSUME RehearsalTypeOK, NEW p \in Probes, probe[p] # Nil
  PROVE  /\ probe[p] \in Probe /\ probe[p].snapshot \in Snapshots
         /\ probe[p].answers \in Seq(Answers) /\ Len(probe[p].answers) \in 0 .. 4
         /\ probe[p].steady \in BOOLEAN /\ probe[p].size \in Nat \ {0}
<1>1. probe[p] \in Probe
  BY DEF RehearsalTypeOK
<1>2. probe[p].snapshot \in Snapshots /\ probe[p].answers \in Seq(Answers)
        /\ probe[p].steady \in BOOLEAN /\ probe[p].size \in Nat \ {0}
  BY <1>1 DEF Probe
<1>3. Len(probe[p].answers) \in Nat
  BY <1>2
<1>4. Len(probe[p].answers) <= 4
  BY FourKinds DEF RehearsalTypeOK
<1> DEFINE n == Len(probe[p].answers)
<1>5. n \in 0 .. 4
  <2> HIDE DEF n
  <2>1. n \in Nat /\ n <= 4
    BY <1>3, <1>4 DEF n
  <2>2. QED
    BY <2>1
<1>6. QED
  BY <1>1, <1>2, <1>5, Zenon

\* What the layer may hold is a finite set of numbers.
LEMMA LayerTyped ==
  ASSUME RehearsalTypeOK, NEW records, records \subseteq work.ids
  PROVE  records \subseteq Nat /\ IsFiniteSet(records) /\ Cardinality(records) \in Nat
<1>1. work.ids \subseteq Nat /\ IsFiniteSet(work.ids)
  BY ProbeConstants DEF RehearsalTypeOK
<1>2. IsFiniteSet(records)
  BY <1>1, FS_Subset
<1>3. QED
  BY <1>1, <1>2, FS_CardinalityType

\* The layer answers each request in form.
LEMMA ResponseTyped ==
  ASSUME NEW records, records \subseteq Nat, IsFiniteSet(records), NEW kind,
         NEW size \in Nat \ {0}
  PROVE  Response(records, kind, size) \in Answers
<1>1. size \in Nat /\ Offset(kind, size) \in Nat
  BY DEF Offset
<1>2. Cardinality(records) \in Nat
  BY FS_CardinalityType
<1>3. Page(records, Offset(kind, size), size) \in Seq(Nat)
  <2>1. Lists(Page(records, Offset(kind, size), size), records, Offset(kind, size), size)
    BY <1>1, PageLists
  <2>2. QED
    BY <2>1 DEF Lists
<1>4. QED
  BY <1>2, <1>3 DEF Response, Answers

\* What one layer answers to all four requests passes.
LEMMA OneLayerPasses ==
  ASSUME NEW records, records \subseteq Nat, IsFiniteSet(records), NEW size \in Nat \ {0}
  PROVE  PageSequenceIsValid(
           Response(records, "initial", size), Response(records, "next", size),
           Response(records, "replay", size), Response(records, "count", size).count, size)
<1> DEFINE count == Cardinality(records)
           first == Page(records, 0, size)
           second == Page(records, size, size)
           all == first \o second
<1>1. size \in Nat \ {0} /\ count \in Nat
  BY FS_CardinalityType
<1>2. /\ Response(records, "initial", size) = [ids |-> first, exceeded |-> count > size]
      /\ Response(records, "replay", size) = [ids |-> first, exceeded |-> count > size]
      /\ Response(records, "next", size) =
           [ids |-> second, exceeded |-> count > size + size]
      /\ Response(records, "count", size).count = count
  <2>1. 0 + size = size
    BY <1>1
  <2>2. QED
    BY <2>1 DEF Response, Offset
<1>3. /\ first \in Seq(Nat) /\ Len(first) = AtMost(AtLeast(count, 0) - 0, size)
      /\ \A i \in 1 .. Len(first) : first[i] = Nth(records, 0 + i)
  <2>1. 0 \in Nat /\ size \in Nat
    BY <1>1
  <2>2. Lists(first, records, 0, size)
    BY <2>1, PageLists
  <2> HIDE DEF first
  <2>3. QED
    BY <2>2 DEF Lists
<1>4. /\ second \in Seq(Nat)
      /\ Len(second) = AtMost(AtLeast(count, size) - size, size)
      /\ \A i \in 1 .. Len(second) : /\ second[i] = Nth(records, size + i)
  <2>1. size \in Nat
    BY <1>1
  <2>2. Lists(second, records, size, size)
    BY <2>1, PageLists
  <2> HIDE DEF second
  <2>3. QED
    BY <2>2 DEF Lists
<1> HIDE DEF count, first, second
<1>5. /\ Len(first) \in Nat /\ Len(second) \in Nat
      /\ Len(first) = AtMost(count, size) /\ Len(second) = ExpectedNext(count, size)
  BY <1>1, <1>3, <1>4 DEF AtMost, AtLeast, ExpectedNext
<1>6. /\ all \in Seq(Nat) /\ Len(all) = Len(first) + Len(second)
      /\ \A i \in 1 .. Len(first) : all[i] = first[i]
      /\ \A i \in Len(first) + 1 .. Len(all) :
           all[i] = second[i - Len(first)] /\ i - Len(first) \in 1 .. Len(second)
  <2>1. first \in Seq(Nat) /\ second \in Seq(Nat)
    BY <1>3, <1>4
  <2>2. QED
    BY <2>1, Joined
<1>7. Len(all) <= count /\ (Len(second) > 0 => Len(first) = size)
  BY <1>1, <1>3, <1>4, <1>6 DEF AtMost, AtLeast
<1>8. ASSUME NEW i \in 1 .. Len(all) PROVE all[i] = Nth(records, i)
  <2>1. CASE i <= Len(first)
    <3>1. i \in 1 .. Len(first) /\ 0 + i = i
      BY <1>5, <1>6, <2>1
    <3>2. QED
      BY <1>3, <1>6, <3>1
  <2>2. CASE i > Len(first)
    <3>1. i \in Len(first) + 1 .. Len(all)
      <4> HIDE DEF all
      <4>1. QED
        BY <1>5, <1>6, <2>2
    <3>2. i - Len(first) \in 1 .. Len(second) /\ all[i] = second[i - Len(first)]
      <4> HIDE DEF all
      <4>1. QED
        BY <1>6, <3>1
    <3>3. Len(first) = size
      BY <1>5, <1>7, <3>2
    <3>4. size + (i - Len(first)) = i
      BY <1>1, <3>3
    <3>5. QED
      BY <1>4, <3>2, <3>4
  <2>3. QED
    BY <1>5, <1>6, <2>1, <2>2
<1>9. ASSUME NEW i \in 1 .. Len(all) - 1 PROVE all[i] < all[i + 1]
  <2>1. /\ i \in 1 .. Len(all) /\ i + 1 \in 1 .. Len(all)
        /\ i \in 1 .. count /\ i + 1 \in 1 .. count /\ i < i + 1
    BY <1>1, <1>5, <1>6, <1>7
  <2>2. Nth(records, i) < Nth(records, i + 1)
    BY <2>1, NthIncreases DEF count
  <2>3. QED
    BY <1>8, <2>1, <2>2
<1>10. count > 2 * size => count > size + size
  BY <1>1
<1>11. /\ Response(records, "initial", size) = Response(records, "replay", size)
       /\ Response(records, "initial", size).ids = first
       /\ Response(records, "initial", size).exceeded = (count > size)
       /\ Response(records, "next", size).ids = second
       /\ Response(records, "next", size).exceeded = (count > size + size)
       /\ Response(records, "count", size).count = count
  BY <1>2
<1>12. QED
  BY <1>5, <1>9, <1>10, <1>11, Zenon DEF PageSequenceIsValid
-----------------------------------------------------------------------------
\* The observation of a request among some.
ChosenOf(obs, k) == CHOOSE o \in obs : o[2] = k

\* One of some observations answers the request.
Requested(obs, k) == \E o \in obs : o[2] = k

\* The pages observed agree with the count observed.
InAccord(obs, size) ==
  /\ Requested(obs, 1)
  /\ PageSequenceIsValid(AnswerTo(ChosenOf(obs, 2)), AnswerTo(ChosenOf(obs, 3)),
                         AnswerTo(ChosenOf(obs, 4)), AnswerTo(ChosenOf(obs, 1)).count, size)

\* An assessment's gaps, one by one.
LEMMA GapByGap ==
  ASSUME NEW s, NEW size, NEW obs, NEW manifest
  PROVE  LET gaps == Gaps(s, size, obs, manifest) IN
         /\ gaps \subseteq {"capability", "count", "page", "replay", "sequence", "rehearsal"}
         /\ "capability" \in gaps <=> ~ready[s]
         /\ "count" \in gaps <=> ~Requested(obs, 1)
         /\ "page" \in gaps <=> ~Requested(obs, 2) \/ ~Requested(obs, 3)
         /\ "replay" \in gaps <=> ~Requested(obs, 4)
         /\ "sequence" \in gaps <=> /\ Requested(obs, 2) /\ Requested(obs, 3)
                                    /\ Requested(obs, 4) /\ ~InAccord(obs, size)
         /\ "rehearsal" \in gaps <=> manifest = Nil
BY DEF Gaps, Requested, InAccord, ChosenOf

\* A snapshot is blocked over its metadata or over the pages, whatever was rehearsed.
LEMMA BlockedOver ==
  ASSUME NEW s, NEW size, NEW obs, NEW manifest
  PROVE  Status(Gaps(s, size, obs, manifest)) = "blocked" <=>
           \/ ~ready[s]
           \/ /\ Requested(obs, 2) /\ Requested(obs, 3) /\ Requested(obs, 4)
              /\ ~InAccord(obs, size)
<1> DEFINE gaps == Gaps(s, size, obs, manifest)
<1>1. Status(gaps) = "blocked" <=> "capability" \in gaps \/ "sequence" \in gaps
  <2> HIDE DEF gaps
  <2>1. QED
    BY DEF Status
<1>2. QED
  BY <1>1, GapByGap

-----------------------------------------------------------------------------
\* Of observations one a request, four are all there are.
LEMMA FourObservations ==
  ASSUME NEW obs, obs \subseteq Probes \X (1 .. 4),
         \A o, q \in obs : o[2] = q[2] => o = q
  PROVE  Cardinality(obs) = 4 <=> \A k \in 1 .. 4 : Requested(obs, k)
<1> DEFINE f == [o \in obs |-> o[2]]
           T == 1 .. 4
<1>1. IsFiniteSet(T) /\ Cardinality(T) = 4
  <2>1. 1 \in Int /\ 4 \in Int /\ 4 - 1 + 1 = 4 /\ ~ (1 > 4)
    OBVIOUS
  <2>2. QED
    BY <2>1, FS_Interval
<1>2. f \in [obs -> T] /\ DOMAIN f = obs /\ \A o \in obs : f[o] = o[2]
  OBVIOUS
<1> HIDE DEF f, T
<1>3. f \in Injection(obs, T)
  <2>1. \A a, b \in DOMAIN f : f[a] = f[b] => a = b
    BY <1>2
  <2>2. QED
    BY <1>2, <2>1 DEF Injection, IsInjective
<1>4. Cardinality(obs) = 4 <=> f \in Surjection(obs, T)
  BY <1>1, <1>3, FS_Injection
<1>5. f \in Surjection(obs, T) <=> \A k \in T : \E o \in obs : f[o] = k
  BY <1>2 DEF Surjection
<1>6. (\A k \in T : \E o \in obs : f[o] = k) <=> \A k \in T : Requested(obs, k)
  BY <1>2 DEF Requested
<1>7. QED
  BY <1>4, <1>5, <1>6, Zenon DEF T

\* Stored observations of one plan's requests are one a request.
LEMMA OneARequest ==
  ASSUME RehearsalTypeOK, Stored, NEW s, NEW size, NEW obs, obs \subseteq rows.observations,
         \A o \in obs : InPlan(o, s, size)
  PROVE  obs \subseteq Probes \X (1 .. 4) /\ \A o, q \in obs : o[2] = q[2] => o = q
<1>1. rows.observations \subseteq Probes \X (1 .. 4)
  BY FourKinds DEF RehearsalTypeOK
<1>2. QED
  BY <1>1 DEF Stored, SameRequest, InPlan

\* Of two stored assessments of a plan that rest on all four answers, one is not
\* blocked and the other clean: they rest on the same answers.
LEMMA FinalVerdict == ParcelInv => VerdictIsFinal
<1>1. SUFFICES ASSUME ParcelInv, NEW a \in rows.assessments, NEW b \in rows.assessments,
                      a.snapshot = b.snapshot, a.size = b.size,
                      Cardinality(a.observations) = 4,
                      Cardinality(b.observations) = 4
               PROVE  (a.status = "blocked") = (b.status = "blocked")
  BY FourKinds DEF VerdictIsFinal
<1>2. RehearsalTypeOK /\ Stored /\ Assessed(a) /\ Assessed(b)
  BY <1>1 DEF ParcelInv
<1>3. /\ a.observations \subseteq rows.observations
      /\ \A o \in a.observations : InPlan(o, a.snapshot, a.size)
      /\ b.observations \subseteq rows.observations
      /\ \A o \in b.observations : InPlan(o, a.snapshot, a.size)
  BY <1>1, <1>2 DEF Assessed
<1>4. /\ a.observations \subseteq Probes \X (1 .. 4)
      /\ b.observations \subseteq Probes \X (1 .. 4)
      /\ \A k \in 1 .. 4 : Requested(a.observations, k) /\ Requested(b.observations, k)
  <2>1. /\ a.observations \subseteq Probes \X (1 .. 4)
        /\ \A o, q \in a.observations : o[2] = q[2] => o = q
    BY <1>2, <1>3, OneARequest
  <2>2. /\ b.observations \subseteq Probes \X (1 .. 4)
        /\ \A o, q \in b.observations : o[2] = q[2] => o = q
    BY <1>2, <1>3, OneARequest
  <2>3. \A k \in 1 .. 4 : Requested(a.observations, k)
    BY <1>1, <2>1, FourObservations
  <2>4. \A k \in 1 .. 4 : Requested(b.observations, k)
    BY <1>1, <2>2, FourObservations
  <2>5. QED
    BY <2>1, <2>2, <2>3, <2>4
<1>5. a.observations = b.observations
  <2>1. ASSUME NEW o \in a.observations PROVE o \in b.observations
    <3>1. PICK q \in b.observations : q[2] = o[2]
      BY <1>4 DEF Requested
    <3>2. q = o
      BY <1>2, <1>3, <3>1 DEF Stored, SameRequest, InPlan
    <3>3. QED
      BY <3>2
  <2>2. ASSUME NEW o \in b.observations PROVE o \in a.observations
    <3>1. PICK q \in a.observations : q[2] = o[2]
      BY <1>4 DEF Requested
    <3>2. q = o
      BY <1>2, <1>3, <3>1 DEF Stored, SameRequest, InPlan
    <3>3. QED
      BY <3>2
  <2>3. QED
    BY <2>1, <2>2
<1>6. QED
  BY <1>1, <1>2, <1>5, BlockedOver DEF Assessed

\* What is called verified has no gap.
LEMMA VerifiedHasNoGap ==
  ASSUME NEW gaps, Status(gaps) = "bulk_rehearsal_verified"
  PROVE  gaps = {}
BY DEF Status

\* A snapshot called verified has four stored answers that agree with a completed
\* rehearsal of it.
LEMMA ReconciledVerdict == ParcelInv => VerifiedIsReconciled
<1>1. SUFFICES ASSUME ParcelInv, NEW a \in rows.assessments,
                      a.status = "bulk_rehearsal_verified"
               PROVE  /\ a.manifest \in done /\ a.manifest.snapshot = a.snapshot
                      /\ ready[a.snapshot] /\ Cardinality(a.observations) = Len(Kinds)
                      /\ \A o \in a.observations : o[2] = 1 =>
                           AnswerTo(o).count = Cardinality(ToSet(FlattenSeq(a.manifest.pages)))
  BY DEF VerifiedIsReconciled
<1>2. RehearsalTypeOK /\ Stored /\ Assessed(a)
  BY <1>1 DEF ParcelInv
<1> DEFINE gaps == Gaps(a.snapshot, a.size, a.observations, a.manifest)
<1>3. gaps = {}
  <2>1. Status(gaps) = "bulk_rehearsal_verified"
    BY <1>1, <1>2 DEF Assessed
  <2> HIDE DEF gaps
  <2>2. QED
    BY <2>1, VerifiedHasNoGap
<1>4. /\ ready[a.snapshot] /\ a.manifest # Nil
      /\ Requested(a.observations, 1) /\ Requested(a.observations, 2)
      /\ Requested(a.observations, 3) /\ Requested(a.observations, 4)
  <2>1. \A g : g \notin gaps
    BY <1>3
  <2> HIDE DEF gaps
  <2>2. QED
    BY <2>1, GapByGap, Zenon DEF gaps
<1>5. a.manifest \in done /\ a.manifest.snapshot = a.snapshot
        /\ Reconciles(a.manifest, a.observations)
  BY <1>2, <1>4 DEF Assessed
<1>6. /\ a.observations \subseteq rows.observations
      /\ \A o \in a.observations : InPlan(o, a.snapshot, a.size)
  BY <1>2 DEF Assessed
<1>7. /\ a.observations \subseteq Probes \X (1 .. 4)
      /\ \A o, q \in a.observations : o[2] = q[2] => o = q
  <2>1. PICK obs : obs = a.observations
    OBVIOUS
  <2>2. /\ RehearsalTypeOK /\ Stored /\ obs \subseteq rows.observations
        /\ \A o \in obs : InPlan(o, a.snapshot, a.size)
    BY <1>2, <1>6, <2>1
  <2>3. obs \subseteq Probes \X (1 .. 4) /\ \A o, q \in obs : o[2] = q[2] => o = q
    BY <2>2, OneARequest
  <2>4. QED
    BY <2>1, <2>3
<1>8. Cardinality(a.observations) = Len(Kinds)
  <2>1. \A k \in 1 .. 4 : k = 1 \/ k = 2 \/ k = 3 \/ k = 4
    OBVIOUS
  <2>2. \A k \in 1 .. 4 : Requested(a.observations, k)
    BY <1>4, <2>1
  <2>3. QED
    BY <1>7, <2>2, FourKinds, FourObservations
<1>9. a.manifest.start = Cardinality(ToSet(FlattenSeq(a.manifest.pages)))
  BY <1>1, <1>5 DEF ParcelInv, Executed
<1>10. PICK q \in a.observations : q[2] = 1 /\ AnswerTo(q).count = a.manifest.start
  BY <1>5 DEF Reconciles
<1>11. ASSUME NEW o \in a.observations, o[2] = 1
       PROVE  AnswerTo(o).count = Cardinality(ToSet(FlattenSeq(a.manifest.pages)))
  <2>1. o = q
    BY <1>7, <1>10, <1>11
  <2>2. QED
    BY <1>9, <1>10, <2>1
<1>12. QED
  BY <1>4, <1>5, <1>8, <1>11

\* A completed rehearsal misses no more than was deleted, and lists nothing twice.
LEMMA CompleteList == ParcelInv => ListMissesOnlyDeleted
BY Zenon DEF ParcelInv, Executed, ListMissesOnlyDeleted

\* A probe over which nothing moved is blocked only if the metadata is wanting, and no
\* rehearsal is refused over a layer nobody edited.
LEMMA SteadyPasses == ParcelInv => SteadyLayersPass
<1>1. SUFFICES ASSUME ParcelInv, NEW p \in Probes, Complete(p), probe[p].steady,
                      ready[probe[p].snapshot]
               PROVE  Assessment(probe[p].snapshot, probe[p].size,
                                 {p} \X (1 .. Len(Kinds)), Nil).status
                        = "bounded_query_verified"
  BY DEF SteadyLayersPass, ParcelInv
<1>2. probe[p] # Nil /\ Len(probe[p].answers) = 4
  BY <1>1, FourKinds DEF Complete
<1>3. PICK records \in SUBSET work.ids :
        \A k \in 1 .. 4 : probe[p].answers[k] = Response(records, Kinds[k], probe[p].size)
  BY <1>1, <1>2 DEF ParcelInv, Steadily
<1> DEFINE obs == {p} \X (1 .. 4)
           size == probe[p].size
<1>4. ASSUME NEW k \in 1 .. 4
      PROVE  Requested(obs, k) /\ AnswerTo(ChosenOf(obs, k)) = Response(records, Kinds[k], size)
  <2>1. <<p, k>> \in obs /\ \A o \in obs : o[2] = k => o = <<p, k>>
    OBVIOUS
  <2>2. ChosenOf(obs, k) = <<p, k>> /\ Requested(obs, k)
    <3> HIDE DEF obs
    <3>1. <<p, k>>[2] = k
      OBVIOUS
    <3>2. Requested(obs, k)
      BY <2>1, <3>1 DEF Requested
    <3>3. ChosenOf(obs, k) = <<p, k>>
      BY <2>1, <3>1, Zenon DEF ChosenOf
    <3>4. QED
      BY <3>2, <3>3
  <2>3. AnswerTo(<<p, k>>) = probe[p].answers[k]
    BY DEF AnswerTo
  <2>4. QED
    BY <1>3, <2>2, <2>3
<1> HIDE DEF obs
<1>5. InAccord(obs, size)
  <2>1. records \subseteq Nat /\ IsFiniteSet(records) /\ size \in Nat \ {0}
    BY <1>1, <1>2, LayerTyped, ProbeTyped DEF ParcelInv
  <2>2. PageSequenceIsValid(
          Response(records, "initial", size), Response(records, "next", size),
          Response(records, "replay", size), Response(records, "count", size).count, size)
    BY <2>1, OneLayerPasses
  <2>3. 1 \in 1 .. 4 /\ 2 \in 1 .. 4 /\ 3 \in 1 .. 4 /\ 4 \in 1 .. 4
    OBVIOUS
  <2>4. /\ AnswerTo(ChosenOf(obs, 1)) = Response(records, "count", size)
        /\ AnswerTo(ChosenOf(obs, 2)) = Response(records, "initial", size)
        /\ AnswerTo(ChosenOf(obs, 3)) = Response(records, "next", size)
        /\ AnswerTo(ChosenOf(obs, 4)) = Response(records, "replay", size)
        /\ Requested(obs, 1)
    BY <1>4, <2>3, FourKinds
  <2>5. QED
    BY <2>2, <2>4 DEF InAccord
<1> DEFINE gaps == Gaps(probe[p].snapshot, size, obs, Nil)
<1>6. /\ gaps \subseteq {"capability", "count", "page", "replay", "sequence", "rehearsal"}
      /\ "capability" \notin gaps /\ "count" \notin gaps /\ "page" \notin gaps
      /\ "replay" \notin gaps /\ "sequence" \notin gaps /\ "rehearsal" \in gaps
  <2>1. Requested(obs, 1) /\ Requested(obs, 2) /\ Requested(obs, 3) /\ Requested(obs, 4)
    BY <1>4
  <2>2. QED
    BY <1>1, <1>5, <2>1, GapByGap
<1> HIDE DEF gaps
<1>7. gaps = {"rehearsal"}
  BY <1>6
<1>8. Status(gaps) = "bounded_query_verified"
  BY <1>7 DEF Status
<1>9. QED
  BY <1>8, FourKinds DEF Assessment, obs, gaps

-----------------------------------------------------------------------------
\* What a probe was told stays told.
AnswersStay ==
  \A p \in Probes : probe[p] # Nil =>
    /\ probe'[p] # Nil /\ probe'[p].snapshot = probe[p].snapshot
    /\ probe'[p].size = probe[p].size
    /\ \A k \in 1 .. Len(probe[p].answers) :
         k <= Len(probe'[p].answers) /\ probe'[p].answers[k] = probe[p].answers[k]

\* It does where no probe moves.
LEMMA AnswersUntouched ==
  ASSUME RehearsalTypeOK, UNCHANGED probe
  PROVE  AnswersStay
<1>1. SUFFICES ASSUME NEW p \in Probes, probe[p] # Nil, NEW k \in 1 .. Len(probe[p].answers)
               PROVE  k <= Len(probe[p].answers)
  BY DEF AnswersStay
<1>2. Len(probe[p].answers) \in 0 .. 4
  BY <1>1, ProbeTyped
<1> DEFINE n == Len(probe[p].answers)
<1> HIDE DEF n
<1>3. n \in 0 .. 4 /\ k \in 1 .. n => k <= n
  OBVIOUS
<1>4. QED
  BY <1>1, <1>2, <1>3 DEF n

\* The status of an assessment whose answers stay is the same later.
LEMMA StatusStays ==
  ASSUME NEW s, NEW size, NEW obs, NEW manifest, UNCHANGED ready,
         \A o \in obs : AnswerTo(o)' = AnswerTo(o)
  PROVE  Status(Gaps(s, size, obs, manifest))' = Status(Gaps(s, size, obs, manifest))
<1> DEFINE gaps == Gaps(s, size, obs, manifest)
           names == {"capability", "count", "page", "replay", "sequence", "rehearsal"}
           later == Gaps(s, size, obs, manifest)'
<1>1. ASSUME NEW k, Requested(obs, k)
      PROVE  AnswerTo(ChosenOf(obs, k))' = AnswerTo(ChosenOf(obs, k))
  <2>1. ChosenOf(obs, k) \in obs
    BY <1>1 DEF Requested, ChosenOf
  <2>2. QED
    BY <2>1
<1>2. ASSUME Requested(obs, 2), Requested(obs, 3), Requested(obs, 4)
      PROVE  InAccord(obs, size)' <=> InAccord(obs, size)
  BY <1>1, <1>2, Zenon DEF InAccord
<1>3. /\ gaps \subseteq names
      /\ "capability" \in gaps <=> ~ready[s]
      /\ "count" \in gaps <=> ~Requested(obs, 1)
      /\ "page" \in gaps <=> ~Requested(obs, 2) \/ ~Requested(obs, 3)
      /\ "replay" \in gaps <=> ~Requested(obs, 4)
      /\ "sequence" \in gaps <=> /\ Requested(obs, 2) /\ Requested(obs, 3)
                                 /\ Requested(obs, 4) /\ ~InAccord(obs, size)
      /\ "rehearsal" \in gaps <=> manifest = Nil
  BY GapByGap
<1>4. /\ later \subseteq names
      /\ "capability" \in later <=> ~ready'[s]
      /\ "count" \in later <=> ~Requested(obs, 1)
      /\ "page" \in later <=> ~Requested(obs, 2) \/ ~Requested(obs, 3)
      /\ "replay" \in later <=> ~Requested(obs, 4)
      /\ "sequence" \in later <=> /\ Requested(obs, 2) /\ Requested(obs, 3)
                                  /\ Requested(obs, 4) /\ ~InAccord(obs, size)'
      /\ "rehearsal" \in later <=> manifest = Nil
  BY DEF Gaps, Requested, InAccord, ChosenOf
<1> HIDE DEF gaps, later
<1>5. \A g \in names : g \in later <=> g \in gaps
  BY <1>2, <1>3, <1>4
<1>6. later = gaps
  <2>1. gaps \subseteq names /\ later \subseteq names
    BY <1>3, <1>4
  <2> HIDE DEF names
  <2>2. QED
    BY <1>5, <2>1
<1>7. Status(gaps) = Status(later)
  BY <1>6
<1>8. QED
  BY <1>7, Zenon DEF gaps, later, Status

\* An assessment stands while the answers, the metadata and the stored rows stay.
LEMMA AssessmentStays ==
  ASSUME RehearsalTypeOK, Stored, AnswersStay, UNCHANGED ready,
         done \subseteq done', rows.observations \subseteq rows'.observations,
         NEW a, Assessed(a)
  PROVE  Assessed(a)'
<1>1. /\ a.observations \subseteq rows.observations
      /\ \A o \in a.observations : InPlan(o, a.snapshot, a.size)
      /\ a.status = Status(Gaps(a.snapshot, a.size, a.observations, a.manifest))
      /\ a.manifest # Nil => /\ a.manifest \in done /\ a.manifest.snapshot = a.snapshot
                             /\ Reconciles(a.manifest, a.observations)
  BY DEF Assessed
<1>2. rows.observations \subseteq Probes \X (1 .. 4)
  BY FourKinds DEF RehearsalTypeOK
<1>3. ASSUME NEW o \in a.observations
      PROVE  AnswerTo(o)' = AnswerTo(o) /\ InPlan(o, a.snapshot, a.size)'
  <2>1. /\ o \in rows.observations /\ o[1] \in Probes /\ o[2] \in 1 .. 4
        /\ probe[o[1]] # Nil /\ o[2] <= Len(probe[o[1]].answers)
    BY <1>1, <1>2 DEF Stored
  <2>2. Len(probe[o[1]].answers) \in 0 .. 4
    BY <2>1, ProbeTyped
  <2>3. o[2] \in 1 .. Len(probe[o[1]].answers)
    BY <2>1, <2>2
  <2>4. QED
    BY <1>1, <2>1, <2>3 DEF AnswersStay, AnswerTo, InPlan
<1>4. Status(Gaps(a.snapshot, a.size, a.observations, a.manifest))'
        = Status(Gaps(a.snapshot, a.size, a.observations, a.manifest))
  BY <1>3, StatusStays
<1>5. Reconciles(a.manifest, a.observations) => Reconciles(a.manifest, a.observations)'
  BY <1>3, Zenon DEF Reconciles
<1>6. QED
  BY <1>1, <1>3, <1>4, <1>5, Zenon DEF Assessed

\* Stored observations stay the only ones of their requests.
LEMMA StoredStays ==
  ASSUME RehearsalTypeOK, Stored, AnswersStay, rows'.observations = rows.observations
  PROVE  Stored'
<1>1. ASSUME NEW o \in rows.observations
      PROVE  /\ o[1] \in Probes /\ probe[o[1]] # Nil /\ probe'[o[1]] # Nil
             /\ probe'[o[1]].snapshot = probe[o[1]].snapshot
             /\ probe'[o[1]].size = probe[o[1]].size
             /\ o[2] <= Len(probe'[o[1]].answers)
  <2>1. o[1] \in Probes /\ o[2] \in 1 .. 4 /\ probe[o[1]] # Nil
          /\ o[2] <= Len(probe[o[1]].answers)
    BY FourKinds DEF RehearsalTypeOK, Stored
  <2>2. Len(probe[o[1]].answers) \in 0 .. 4
    BY <2>1, ProbeTyped
  <2>3. o[2] \in 1 .. Len(probe[o[1]].answers)
    BY <2>1, <2>2
  <2>4. QED
    BY <2>1, <2>3 DEF AnswersStay
<1>2. ASSUME NEW o \in rows.observations, NEW q \in rows.observations, SameRequest(o, q)'
      PROVE  o = q
  <2>1. SameRequest(o, q)
    BY <1>1, <1>2 DEF SameRequest, InPlan
  <2>2. QED
    BY <2>1 DEF Stored
<1>3. QED
  BY <1>1, <1>2, Zenon DEF Stored

\* What is known of the probes stays where they, the rows and the layer do.
LEMMA ProbesUntouched ==
  ASSUME ParcelInv, UNCHANGED probeVars, done \subseteq done'
  PROVE  /\ \A p \in Probes : Steadily(p)'
         /\ Stored'
         /\ \A a \in rows'.assessments : Assessed(a)'
<1>1. RehearsalTypeOK /\ Stored
  BY DEF ParcelInv
<1>2. AnswersStay /\ UNCHANGED ready /\ UNCHANGED rows
  BY <1>1, AnswersUntouched DEF probeVars
<1>3. ASSUME NEW p \in Probes PROVE Steadily(p)'
  <2>1. Steadily(p)
    BY DEF ParcelInv
  <2>2. QED
    BY <2>1 DEF Steadily, Running, probeVars
<1>4. Stored'
  BY <1>1, <1>2, StoredStays
<1>5. ASSUME NEW a \in rows'.assessments PROVE Assessed(a)'
  <2>1. Assessed(a)
    BY <1>2, <1>5 DEF ParcelInv
  <2>2. QED
    BY <1>1, <1>2, <2>1, AssessmentStays
<1>6. QED
  BY <1>3, <1>4, <1>5

\* Executions stand while what is retained stays.
LEMMA ExecutionsStay ==
  ASSUME ParcelInv, done' = done, disk \subseteq disk'
  PROVE  \A e \in done' : Executed(e)'
<1>1. SUFFICES ASSUME NEW e \in done PROVE Executed(e)'
  OBVIOUS
<1>2. Executed(e)
  BY DEF ParcelInv
<1>3. QED
  BY <1>2 DEF Executed

\* What is known of the rehearsals stays where they and the layer do.
LEMMA RehearsalUntouched ==
  ASSUME ParcelInv, UNCHANGED <<work, live, run, disk, done, alarms>>
  PROVE  (\A e \in done' : Executed(e)') /\ Underway' /\ "steady" \notin alarms'
<1>1. \A e \in done' : Executed(e)'
  BY ExecutionsStay
<1>2. Underway'
  BY Zenon DEF ParcelInv, Underway, Watched, Ordered, Paged, Kept, Observed
<1>3. QED
  BY <1>1, <1>2 DEF ParcelInv

-----------------------------------------------------------------------------
\* What is known of a probe stays where it and the layer do.
LEMMA SteadyStays ==
  ASSUME NEW q, Steadily(q), probe'[q] = probe[q], UNCHANGED <<work, live>>
  PROVE  Steadily(q)'
BY DEF Steadily, Running

\* A probe that moves keeps the types.
LEMMA ProbeMoves ==
  ASSUME RehearsalTypeOK, NEW p \in Probes, NEW new \in Probe, Len(new.answers) \in 0 .. 4,
         probe' = [probe EXCEPT ![p] = new],
         UNCHANGED <<work, live, edits, ready, rows, run, started, disk, done, proof, alarms>>
  PROVE  /\ RehearsalTypeOK' /\ probe'[p] = new
         /\ \A q \in Probes : q # p => probe'[q] = probe[q]
<1>1. /\ probe' \in [Probes -> Probe \cup {Nil}] /\ probe'[p] = new
      /\ \A q \in Probes : q # p => probe'[q] = probe[q]
  BY DEF RehearsalTypeOK
<1>2. ASSUME NEW q \in Probes, probe'[q] # Nil PROVE Len(probe'[q].answers) <= Len(Kinds)
  <2>1. CASE q = p
    <3> DEFINE n == Len(new.answers)
    <3>1. n \in 0 .. 4 => n <= 4
      <4> HIDE DEF n
      <4>1. QED
        OBVIOUS
    <3>2. QED
      BY <1>1, <2>1, <3>1, FourKinds
  <2>2. CASE q # p
    BY <1>1, <1>2, <2>2 DEF RehearsalTypeOK
  <2>3. QED
    BY <2>1, <2>2
<1>3. RehearsalTypeOK'
  BY <1>1, <1>2 DEF RehearsalTypeOK
<1>4. QED
  BY <1>1, <1>3

\* A new probe has been told nothing yet.
LEMMA StartProbeKeeps ==
  ASSUME ParcelInv, NEW p \in Probes, NEW s \in Snapshots, NEW size \in work.sizes,
         StartProbe(p, s, size),
         UNCHANGED <<run, started, disk, done, proof, alarms>>
  PROVE  ParcelInv'
<1> DEFINE new == [snapshot |-> s, size |-> size, answers |-> <<>>, steady |-> TRUE]
<1>1. /\ new \in Probe /\ new # Nil /\ Len(new.answers) \in 0 .. 4
      /\ Len(new.answers) = 0 /\ RehearsalTypeOK
      /\ probe[p] = Nil /\ probe' = [probe EXCEPT ![p] = new]
      /\ UNCHANGED <<work, live, edits, ready, rows>>
  <2>0. size \in Nat \ {0}
    BY ProbeConstants DEF ParcelInv, RehearsalTypeOK
  <2>1. new \in Probe /\ Len(new.answers) = 0
    BY <2>0 DEF Probe
  <2>2. 0 \in 0 .. 4
    OBVIOUS
  <2>3. QED
    BY <2>1, <2>2, NilIsNoProbe DEF ParcelInv, StartProbe
<1>2. /\ RehearsalTypeOK' /\ probe'[p] = new
      /\ \A q \in Probes : q # p => probe'[q] = probe[q]
  <2> HIDE DEF new
  <2>1. QED
    BY <1>1, ProbeMoves
<1>3. AnswersStay
  <2>1. ASSUME NEW q \in Probes, probe[q] # Nil PROVE probe'[q] = probe[q]
    BY <1>1, <1>2, <2>1
  <2>2. ASSUME NEW q \in Probes, probe[q] # Nil, NEW k \in 1 .. Len(probe[q].answers)
        PROVE  k <= Len(probe[q].answers)
    <3>1. Len(probe[q].answers) \in 0 .. 4
      BY <1>1, <2>2, ProbeTyped
    <3> DEFINE n == Len(probe[q].answers)
    <3> HIDE DEF n
    <3>2. n \in 0 .. 4 /\ k \in 1 .. n => k <= n
      OBVIOUS
    <3>3. QED
      BY <2>2, <3>1, <3>2 DEF n
  <2>3. QED
    BY <2>1, <2>2 DEF AnswersStay
<1>4. ASSUME NEW q \in Probes PROVE Steadily(q)'
  <2>1. CASE q = p
    <3>1. live \in SUBSET work.ids
      BY <1>1 DEF RehearsalTypeOK
    <3>2. \A k \in 1 .. Len(new.answers) : FALSE
      BY <1>1
    <3> HIDE DEF new
    <3>3. QED
      BY <1>1, <1>2, <2>1, <3>1, <3>2, Zenon DEF Steadily
  <2>2. CASE q # p
    BY <1>1, <1>2, <2>2, SteadyStays DEF ParcelInv
  <2>3. QED
    BY <2>1, <2>2
<1>5. Stored'
  BY <1>1, <1>3, StoredStays DEF ParcelInv
<1>6. ASSUME NEW a \in rows'.assessments PROVE Assessed(a)'
  <2>1. Assessed(a) /\ Stored
    BY <1>1, <1>6 DEF ParcelInv
  <2>2. QED
    BY <1>1, <1>3, <2>1, AssessmentStays
<1>7. (\A e \in done' : Executed(e)') /\ Underway' /\ "steady" \notin alarms'
  BY <1>1, RehearsalUntouched
<1>8. QED
  BY <1>2, <1>4, <1>5, <1>6, <1>7 DEF ParcelInv

\* A probe over which nothing moved asks the layer it has asked before.
LEMMA AskKeeps ==
  ASSUME ParcelInv, NEW p \in Probes, Ask(p),
         UNCHANGED <<run, started, disk, done, proof, alarms>>
  PROVE  ParcelInv'
<1> DEFINE old == probe[p]
           n == Len(old.answers)
           answer == Response(live, Kinds[n + 1], old.size)
           new == [old EXCEPT !.answers = Append(@, answer)]
<1>1. /\ RehearsalTypeOK /\ Running(p) /\ probe[p] # Nil
      /\ probe' = [probe EXCEPT ![p] = new]
      /\ UNCHANGED <<work, live, edits, ready, rows>>
  BY DEF ParcelInv, Ask, Running
<1>2. /\ old \in Probe /\ old.snapshot \in Snapshots /\ old.answers \in Seq(Answers)
      /\ n \in 0 .. 4 /\ old.steady \in BOOLEAN /\ old.size \in Nat \ {0}
  BY <1>1, ProbeTyped
<1>3. n \in 0 .. 3
  <2>1. n < 4
    BY <1>1, FourKinds DEF Running
  <2> HIDE DEF n
  <2>2. QED
    BY <1>2, <2>1
<1>4. live \in SUBSET work.ids /\ answer \in Answers
  <2>1. live \in SUBSET work.ids
    BY <1>1 DEF RehearsalTypeOK
  <2>2. QED
    BY <1>1, <1>2, <2>1, LayerTyped, ResponseTyped
<1> HIDE DEF answer
<1>5. /\ new \in Probe /\ new # Nil
      /\ new.snapshot = old.snapshot /\ new.size = old.size /\ new.steady = old.steady
      /\ new.answers = Append(old.answers, answer)
  <2> HIDE DEF old
  <2>1. new \in Probe
    BY <1>2, <1>4 DEF Probe
  <2>2. /\ new.snapshot = old.snapshot /\ new.size = old.size /\ new.steady = old.steady
        /\ new.answers = Append(old.answers, answer)
    BY <1>2 DEF Probe
  <2>3. QED
    BY <2>1, <2>2, NilIsNoProbe
<1>6. /\ Len(new.answers) = n + 1 /\ n + 1 \in 0 .. 4 /\ new.answers[n + 1] = answer
      /\ \A k \in 1 .. n : /\ new.answers[k] = old.answers[k] /\ k <= n + 1
  <2> HIDE DEF old, new
  <2>1. QED
    BY <1>2, <1>3, <1>4, <1>5, SMTT(30) DEF n
<1> HIDE DEF new
<1>7. /\ RehearsalTypeOK' /\ probe'[p] = new
      /\ \A q \in Probes : q # p => probe'[q] = probe[q]
  BY <1>1, <1>5, <1>6, ProbeMoves
<1>8. AnswersStay
  <2>1. ASSUME NEW q \in Probes, probe[q] # Nil, NEW k \in 1 .. Len(probe[q].answers)
        PROVE  k <= Len(probe'[q].answers) /\ probe'[q].answers[k] = probe[q].answers[k]
    <3>1. CASE q = p
      BY <1>6, <1>7, <2>1, <3>1
    <3>2. CASE q # p
      <4>1. probe'[q] = probe[q] /\ Len(probe[q].answers) \in 0 .. 4
        BY <1>1, <1>7, <2>1, <3>2, ProbeTyped
      <4> DEFINE m == Len(probe[q].answers)
      <4> HIDE DEF m
      <4>2. m \in 0 .. 4 /\ k \in 1 .. m => k <= m
        OBVIOUS
      <4>3. QED
        BY <2>1, <4>1, <4>2 DEF m
    <3>3. QED
      BY <3>1, <3>2
  <2>2. QED
    BY <1>5, <1>7, <2>1 DEF AnswersStay
<1>9. ASSUME NEW q \in Probes PROVE Steadily(q)'
  <2>1. CASE q = p /\ old.steady
    <3>1. PICK records \in SUBSET work.ids :
            /\ \A k \in 1 .. n : old.answers[k] = Response(records, Kinds[k], old.size)
            /\ Running(p) => records = live
      BY <1>1, <2>1 DEF ParcelInv, Steadily
    <3>2. \A k \in 1 .. n + 1 : k \in 1 .. n \/ k = n + 1
      <4> HIDE DEF n
      <4>1. QED
        BY <1>3
    <3>3. \A k \in 1 .. n + 1 : new.answers[k] = Response(live, Kinds[k], new.size)
      <4>1. records = live
        BY <1>1, <3>1
      <4> HIDE DEF n, old
      <4>2. QED
        BY <1>5, <1>6, <3>1, <3>2, <4>1 DEF answer
    <3>4. \A k \in 1 .. Len(probe'[p].answers) :
            probe'[p].answers[k] = Response(live', Kinds[k], probe'[p].size)
      BY <1>1, <1>6, <1>7, <3>3
    <3>5. live' \in SUBSET work'.ids /\ (Running(p)' => live' = live')
      BY <1>1, <1>4
    <3>6. Steadily(p)'
      BY <3>4, <3>5, Zenon DEF Steadily
    <3>7. QED
      BY <2>1, <3>6
  <2>2. CASE q = p /\ ~old.steady
    BY <1>5, <1>7, <2>2 DEF Steadily
  <2>3. CASE q # p
    BY <1>1, <1>7, <2>3, SteadyStays DEF ParcelInv
  <2>4. QED
    BY <2>1, <2>2, <2>3
<1>10. Stored'
  BY <1>1, <1>8, StoredStays DEF ParcelInv
<1>11. ASSUME NEW a \in rows'.assessments PROVE Assessed(a)'
  <2>1. Assessed(a) /\ Stored
    BY <1>1, <1>11 DEF ParcelInv
  <2>2. QED
    BY <1>1, <1>8, <2>1, AssessmentStays
<1>12. (\A e \in done' : Executed(e)') /\ Underway' /\ "steady" \notin alarms'
  BY <1>1, RehearsalUntouched
<1>13. QED
  BY <1>7, <1>9, <1>10, <1>11, <1>12 DEF ParcelInv

-----------------------------------------------------------------------------
\* More observations that do not contradict those stored.
LEMMA StoredGrows ==
  ASSUME Stored, UNCHANGED probe, NEW obs,
         rows'.observations = rows.observations \cup obs, Storable(obs),
         \A o \in obs : probe[o[1]] # Nil /\ o[2] <= Len(probe[o[1]].answers),
         \A o, q \in obs : SameRequest(o, q) => o = q
  PROVE  Stored'
<1>1. ASSUME NEW o \in rows'.observations
      PROVE  probe[o[1]] # Nil /\ o[2] <= Len(probe[o[1]].answers)
  BY DEF Stored
<1>2. ASSUME NEW o \in rows'.observations, NEW q \in rows'.observations, SameRequest(o, q)
      PROVE  o = q
  <2>1. SameRequest(q, o)
    BY <1>2 DEF SameRequest, InPlan
  <2>2. CASE o \in rows.observations /\ q \in rows.observations
    BY <1>2, <2>2 DEF Stored
  <2>3. CASE o \in obs /\ q \in rows.observations
    BY <1>2, <2>3 DEF Storable
  <2>4. CASE o \in rows.observations /\ q \in obs
    BY <2>1, <2>4 DEF Storable
  <2>5. CASE o \in obs /\ q \in obs
    BY <1>2, <2>5
  <2>6. QED
    BY <2>2, <2>3, <2>4, <2>5
<1>3. \A o, q : SameRequest(o, q)' <=> SameRequest(o, q)
  BY DEF SameRequest, InPlan
<1>4. QED
  BY <1>1, <1>2, <1>3, Zenon DEF Stored

\* The rows.
Rows ==
  [observations : SUBSET (Probes \X (1 .. Len(Kinds))), manifests : SUBSET done,
   assessments : SUBSET Assessments]

\* Rows that stay in form keep the types.
LEMMA RowsTyped ==
  ASSUME RehearsalTypeOK, rows' \in Rows,
         UNCHANGED <<work, live, edits, ready, probe, run, started, disk, done, proof, alarms>>
  PROVE  RehearsalTypeOK'
BY DEF RehearsalTypeOK, Rows, Assessments

\* A probe's answer is stored under its request, or not at all.
LEMMA StoreObservationKeeps ==
  ASSUME ParcelInv, NEW p \in Probes, NEW k \in 1 .. Len(Kinds), StoreObservation(p, k),
         UNCHANGED <<run, started, disk, done, proof, alarms>>
  PROVE  ParcelInv'
<1> DEFINE obs == {<<p, k>>}
<1>1. /\ RehearsalTypeOK /\ Stored /\ probe[p] # Nil /\ k <= Len(probe[p].answers)
      /\ Storable(obs) /\ rows' = [rows EXCEPT !.observations = @ \cup obs]
      /\ UNCHANGED <<work, live, edits, ready, probe>>
  BY DEF ParcelInv, StoreObservation
<1>2. /\ RehearsalTypeOK' /\ rows'.observations = rows.observations \cup obs
      /\ rows'.assessments = rows.assessments
  <2>1. rows \in Rows
    BY <1>1 DEF RehearsalTypeOK, Rows
  <2>2. /\ rows' \in Rows /\ rows'.observations = rows.observations \cup obs
        /\ rows'.assessments = rows.assessments
    BY <1>1, <2>1 DEF Rows
  <2>3. QED
    BY <1>1, <2>2, RowsTyped
<1>3. AnswersStay
  BY <1>1, AnswersUntouched
<1>4. \A q \in Probes : Steadily(q)'
  BY <1>1, SteadyStays DEF ParcelInv
<1>5. Stored'
  <2>1. \A o \in obs : o = <<p, k>> /\ o[1] = p /\ o[2] = k
    OBVIOUS
  <2> HIDE DEF obs
  <2>2. \A o \in obs : probe[o[1]] # Nil /\ o[2] <= Len(probe[o[1]].answers)
    BY <1>1, <2>1
  <2>3. \A o, q \in obs : SameRequest(o, q) => o = q
    BY <2>1
  <2>4. QED
    BY <1>1, <1>2, <2>2, <2>3, StoredGrows
<1>6. ASSUME NEW a \in rows'.assessments PROVE Assessed(a)'
  <2>1. Assessed(a) /\ rows.observations \subseteq rows'.observations
    BY <1>2, <1>6 DEF ParcelInv
  <2>2. QED
    BY <1>1, <1>3, <2>1, AssessmentStays
<1>7. (\A e \in done' : Executed(e)') /\ Underway' /\ "steady" \notin alarms'
  BY <1>1, RehearsalUntouched
<1>8. QED
  BY <1>2, <1>4, <1>5, <1>6, <1>7 DEF ParcelInv

\* An assessment is one, and says what it was made of.
LEMMA AssessmentMade ==
  ASSUME NEW s \in Snapshots, NEW size \in Nat \ {0},
         NEW obs, obs \subseteq Probes \X (1 .. Len(Kinds)),
         NEW manifest \in Executions \cup {Nil}
  PROVE  LET a == Assessment(s, size, obs, manifest) IN
         /\ a \in Assessments /\ a.snapshot = s /\ a.size = size /\ a.observations = obs
         /\ a.manifest = manifest /\ a.status = Status(Gaps(s, size, obs, manifest))
<1> DEFINE status == Status(Gaps(s, size, obs, manifest))
<1>1. status \in {"blocked", "metadata_only", "bounded_query_verified",
                  "bulk_rehearsal_verified"}
  BY DEF Status
<1> HIDE DEF status
<1>2. Assessment(s, size, obs, manifest) =
        [snapshot |-> s, size |-> size, observations |-> obs, manifest |-> manifest,
         status |-> status]
  BY DEF Assessment, status
<1>3. QED
  BY <1>1, <1>2 DEF Assessments, status

\* A stored assessment rests on stored answers.
LEMMA AssessmentStored ==
  ASSUME NEW s \in Snapshots, NEW size \in Nat \ {0},
         NEW obs, obs \subseteq Probes \X (1 .. Len(Kinds)),
         NEW manifest \in Executions \cup {Nil},
         UNCHANGED <<probe, ready, done>>, obs \subseteq rows'.observations,
         \A o \in obs : InPlan(o, s, size),
         manifest # Nil =>
           manifest \in done /\ manifest.snapshot = s /\ Reconciles(manifest, obs)
  PROVE  Assessed(Assessment(s, size, obs, manifest))'
<1> DEFINE a == Assessment(s, size, obs, manifest)
<1>1. PICK b : b = a
  OBVIOUS
<1>2. /\ b.snapshot = s /\ b.size = size /\ b.observations = obs /\ b.manifest = manifest
      /\ b.status = Status(Gaps(s, size, obs, manifest))
  BY <1>1, AssessmentMade
<1>3. Status(Gaps(s, size, obs, manifest))' = Status(Gaps(s, size, obs, manifest))
  <2>1. \A o \in obs : AnswerTo(o)' = AnswerTo(o)
    BY DEF AnswerTo
  <2>2. QED
    BY <2>1, StatusStays
<1>4. Reconciles(manifest, obs) => Reconciles(manifest, obs)'
  BY DEF Reconciles, AnswerTo
<1>5. Assessed(b)'
  BY <1>2, <1>3, <1>4, Zenon DEF Assessed, InPlan
<1>6. a' = b
  <2>1. a' = Assessment(s, size, obs, manifest)
    BY <1>3, Zenon DEF Assessment
  <2>2. QED
    BY <1>1, <2>1
<1>7. QED
  BY <1>5, <1>6

-----------------------------------------------------------------------------
\* An assessment that rests on stored answers, old or new, is stored beside the others.
LEMMA AssessmentKeeps ==
  ASSUME ParcelInv, NEW s \in Snapshots, NEW size \in Nat \ {0},
         NEW added, Storable(added),
         added \subseteq Probes \X (1 .. Len(Kinds)),
         \A o \in added : probe[o[1]] # Nil /\ o[2] <= Len(probe[o[1]].answers),
         \A o, q \in added : SameRequest(o, q) => o = q,
         NEW obs, obs \subseteq Probes \X (1 .. Len(Kinds)),
         obs \subseteq rows.observations \cup added,
         \A o \in obs : InPlan(o, s, size),
         NEW manifest, manifest # Nil =>
           manifest \in done /\ manifest.snapshot = s /\ Reconciles(manifest, obs),
         rows' = [rows EXCEPT !.observations = @ \cup added,
                              !.assessments = @ \cup {Assessment(s, size, obs, manifest)}],
         UNCHANGED <<work, live, edits, ready, probe, run, started, disk, done, proof, alarms>>
  PROVE  ParcelInv'
<1> DEFINE a == Assessment(s, size, obs, manifest)
<1>1. RehearsalTypeOK /\ Stored /\ manifest \in Executions \cup {Nil}
  BY DEF ParcelInv, RehearsalTypeOK
<1>2. a \in Assessments
  BY <1>1, AssessmentMade
<1> HIDE DEF a
<1>3. /\ RehearsalTypeOK' /\ rows'.observations = rows.observations \cup added
      /\ rows'.assessments = rows.assessments \cup {a}
  <2>1. rows \in Rows
    BY <1>1 DEF RehearsalTypeOK, Rows
  <2>2. /\ rows' \in Rows /\ rows'.observations = rows.observations \cup added
        /\ rows'.assessments = rows.assessments \cup {a}
    BY <1>2, <2>1 DEF Rows, a
  <2>3. QED
    BY <1>1, <2>2, RowsTyped
<1>4. AnswersStay
  BY <1>1, AnswersUntouched
<1>5. \A q \in Probes : Steadily(q)'
  BY SteadyStays DEF ParcelInv
<1>6. Stored'
  BY <1>1, <1>3, StoredGrows
<1>7. Assessed(a)'
  <2>1. obs \subseteq rows'.observations
    BY <1>3
  <2>2. QED
    BY <1>1, <2>1, AssessmentStored DEF a
<1>8. ASSUME NEW b \in rows.assessments PROVE Assessed(b)'
  <2>1. Assessed(b) /\ rows.observations \subseteq rows'.observations
    BY <1>3 DEF ParcelInv
  <2>2. QED
    BY <1>1, <1>4, <2>1, AssessmentStays
<1>9. ASSUME NEW b \in rows'.assessments PROVE Assessed(b)'
  <2>1. PICK c : c = a'
    OBVIOUS
  <2>2. a' = a
    <3>1. Status(Gaps(s, size, obs, manifest))' = Status(Gaps(s, size, obs, manifest))
      <4>1. \A o \in obs : AnswerTo(o)' = AnswerTo(o)
        BY DEF AnswerTo
      <4>2. QED
        BY <4>1, StatusStays
    <3>2. QED
      BY <3>1, Zenon DEF a, Assessment
  <2>3. Assessed(c)'
    BY <1>7, <2>1
  <2>4. b \in rows.assessments \/ b = c
    BY <1>3, <1>9, <2>1, <2>2
  <2>5. QED
    BY <1>8, <2>3, <2>4
<1>10. (\A e \in done' : Executed(e)') /\ Underway' /\ "steady" \notin alarms'
  BY RehearsalUntouched
<1>11. QED
  BY <1>3, <1>5, <1>6, <1>9, <1>10 DEF ParcelInv

\* A snapshot's assessment of the answers stored for it.
LEMMA StoreAssessmentKeeps ==
  ASSUME ParcelInv, NEW s \in Snapshots, NEW size \in work.sizes,
         NEW manifest \in rows.manifests \cup {Nil},
         StoreAssessment(s, size, manifest), UNCHANGED <<run, started, disk, done, proof, alarms>>
  PROVE  ParcelInv'
<1> DEFINE obs == {o \in rows.observations : InPlan(o, s, size)}
<1>1. RehearsalTypeOK /\ rows \in [observations : SUBSET (Probes \X (1 .. Len(Kinds))),
                                   manifests : SUBSET done, assessments : SUBSET Assessments]
  BY DEF ParcelInv, RehearsalTypeOK
<1>2. /\ manifest # Nil => manifest.snapshot = s /\ Reconciles(manifest, obs)
      /\ rows' = [rows EXCEPT !.assessments = @ \cup {Assessment(s, size, obs, manifest)}]
      /\ UNCHANGED <<work, live, edits, ready, probe>>
  BY DEF StoreAssessment
<1>3. /\ obs \subseteq Probes \X (1 .. Len(Kinds)) /\ obs \subseteq rows.observations \cup {}
      /\ \A o \in obs : InPlan(o, s, size)
  BY <1>1
<1> HIDE DEF obs
<1>4. manifest # Nil => manifest \in done
  BY <1>1
<1>5. rows' = [rows EXCEPT !.observations = @ \cup {},
                           !.assessments = @ \cup {Assessment(s, size, obs, manifest)}]
  BY <1>1, <1>2
<1>6. /\ Storable({}) /\ {} \subseteq Probes \X (1 .. Len(Kinds))
      /\ \A o \in {} : probe[o[1]] # Nil /\ o[2] <= Len(probe[o[1]].answers)
      /\ \A o, q \in {} : SameRequest(o, q) => o = q
  BY DEF Storable
<1>7. size \in Nat \ {0}
  BY <1>1, ProbeConstants DEF RehearsalTypeOK
<1>8. QED
  BY <1>2, <1>3, <1>4, <1>5, <1>6, <1>7, AssessmentKeeps

\* A probe's bundle: its four answers and what they come to.
LEMMA PersistBundleKeeps ==
  ASSUME ParcelInv, NEW p \in Probes, PersistBundle(p),
         UNCHANGED <<run, started, disk, done, proof, alarms>>
  PROVE  ParcelInv'
<1> DEFINE obs == {p} \X (1 .. Len(Kinds))
           s == probe[p].snapshot
           size == probe[p].size
<1>1. /\ RehearsalTypeOK /\ Complete(p) /\ Storable(obs)
      /\ rows' = [rows EXCEPT !.observations = @ \cup obs,
                              !.assessments = @ \cup {Assessment(s, size, obs, Nil)}]
      /\ UNCHANGED <<work, live, edits, ready, probe>>
  BY DEF ParcelInv, PersistBundle
<1>2. probe[p] # Nil /\ Len(probe[p].answers) = Len(Kinds) /\ s \in Snapshots
        /\ size \in Nat \ {0}
  BY <1>1, ProbeTyped DEF Complete
<1>3. obs \subseteq Probes \X (1 .. Len(Kinds)) /\ obs \subseteq rows.observations \cup obs
  OBVIOUS
<1>4. \A o \in obs : o[1] = p /\ o[2] \in 1 .. 4 /\ o[2] <= 4
  BY FourKinds
<1>5. \A o, q \in obs : o[2] = q[2] => o = q
  OBVIOUS
<1> HIDE DEF obs
<1>6. /\ \A o \in obs : probe[o[1]] # Nil /\ o[2] <= Len(probe[o[1]].answers)
      /\ \A o, q \in obs : SameRequest(o, q) => o = q
      /\ \A o \in obs : InPlan(o, s, size)
  BY <1>2, <1>4, <1>5, FourKinds DEF SameRequest, InPlan
<1> HIDE DEF s, size
<1>7. QED
  BY <1>1, <1>2, <1>3, <1>6, AssessmentKeeps

-----------------------------------------------------------------------------
\* A rehearsal's record.
LEMMA RunTyped ==
  ASSUME RehearsalTypeOK
  PROVE  /\ run \in Rehearsal /\ run.at \in {"idle", "page", "checkpoint", "count"}
         /\ run.pages \in Seq(Seq(Nat)) /\ Len(run.pages) \in Nat
         /\ Observed \in Seq(Nat) /\ Len(Observed) \in Nat
         /\ run.start \in Nat /\ run.attempt \in 1 .. MaxAttempts
         /\ run.before \subseteq Nat /\ run.throughout \subseteq Nat /\ run.deleted \subseteq Nat
<1>1. run \in Rehearsal
  BY DEF RehearsalTypeOK
<1>2. /\ run.at \in {"idle", "page", "checkpoint", "count"}
      /\ run.pages \in Seq(Seq(Nat)) /\ run.start \in Nat /\ run.attempt \in 1 .. MaxAttempts
      /\ run.before \subseteq Nat /\ run.throughout \subseteq Nat /\ run.deleted \subseteq Nat
  BY <1>1 DEF Rehearsal
<1>3. Observed \in Seq(Nat)
  BY <1>2, FlattenType DEF Observed
<1>4. Len(Observed) \in Nat /\ Len(run.pages) \in Nat
  BY <1>2, <1>3
<1>5. QED
  BY <1>1, <1>2, <1>3, <1>4

\* No rehearsal is one, too.
LEMMA NoRunTyped == NoRun \in Rehearsal /\ NoRun.at = "idle"
<1>1. 1 \in 1 .. MaxAttempts
  BY RehearsalConstants
<1>2. QED
  BY <1>1 DEF NoRun, Rehearsal

\* A step of a rehearsal leaves what is known of the probes.
LEMMA RehearsalKeeps ==
  ASSUME ParcelInv, UNCHANGED <<probeVars, proof>>, run' \in Rehearsal,
         started' \in 0 .. work.rehearsals, done \subseteq done', done' \subseteq Executions,
         \A e \in done' : Executed(e)', Underway',
         alarms' \subseteq alarms \cup {"moved"}
  PROVE  ParcelInv'
<1>1. RehearsalTypeOK'
  <2>1. /\ UNCHANGED <<work, live, edits, ready, probe, rows, proof>>
        /\ alarms' \subseteq {"steady", "moved"} /\ RehearsalTypeOK
    BY DEF probeVars, ParcelInv, RehearsalTypeOK
  <2>2. rows' \in [observations : SUBSET (Probes \X (1 .. Len(Kinds))),
                   manifests : SUBSET done', assessments : SUBSET Assessments]
    <3>1. rows \in [observations : SUBSET (Probes \X (1 .. Len(Kinds))),
                    manifests : SUBSET done, assessments : SUBSET Assessments]
      BY <2>1 DEF RehearsalTypeOK
    <3>2. QED
      BY <2>1, <3>1
  <2>3. QED
    BY <2>1, <2>2 DEF RehearsalTypeOK, Assessments
<1>2. /\ \A p \in Probes : Steadily(p)'
      /\ Stored'
      /\ \A a \in rows'.assessments : Assessed(a)'
  BY ProbesUntouched
<1>3. "steady" \notin alarms'
  BY DEF ParcelInv
<1>4. QED
  BY <1>1, <1>2, <1>3 DEF ParcelInv

\* What is known of a rehearsal stays where it goes on with the same pages.
LEMMA UnderwayStays ==
  ASSUME Underway, run.at # "idle", UNCHANGED <<work, live>>, disk \subseteq disk',
         run'.snapshot = run.snapshot, run'.start = run.start, run'.pages = run.pages,
         run'.retried = run.retried, run'.before = run.before,
         run'.throughout = run.throughout, run'.deleted = run.deleted,
         (run'.at = "count") = (run.at = "count")
  PROVE  Underway'
<1>1. Observed' = Observed
  BY DEF Observed
<1>2. Watched' /\ Ordered'
  BY <1>1 DEF Underway, Watched, Ordered
<1>3. Paged'
  BY <1>1, Zenon DEF Underway, Paged
<1>4. Kept'
  BY DEF Underway, Kept
<1>5. QED
  BY <1>2, <1>3, <1>4 DEF Underway

\* A rehearsal that ends short of completion.
LEMMA EndsKeeps ==
  ASSUME ParcelInv, Ends, UNCHANGED <<probeVars, proof, done>>, disk \subseteq disk',
         started' \in 0 .. work.rehearsals, alarms' \subseteq alarms \cup {"moved"}
  PROVE  ParcelInv'
<1>1. run' \in Rehearsal /\ Underway'
  BY NoRunTyped DEF Ends, Underway
<1>2. \A e \in done' : Executed(e)'
  BY ExecutionsStay
<1>3. done \subseteq done' /\ done' \subseteq Executions
  BY DEF ParcelInv, RehearsalTypeOK
<1>4. QED
  BY <1>1, <1>2, <1>3, RehearsalKeeps

\* A rehearsal that breaks off.
LEMMA BreakKeeps == ASSUME ParcelInv, Break PROVE ParcelInv'
<1>1. started' \in 0 .. work.rehearsals
  BY DEF Break, ParcelInv, RehearsalTypeOK
<1>2. QED
  BY <1>1, EndsKeeps DEF Break

\* An attempt that fails leaves the pages as they are.
LEMMA FailAttemptKeeps ==
  ASSUME ParcelInv, NEW kind \in FailureKinds \cup {"injected"}, FailAttempt(kind)
  PROVE  ParcelInv'
<1>1. /\ RehearsalTypeOK /\ Underway /\ run.at = "page" /\ started' \in 0 .. work.rehearsals
      /\ UNCHANGED <<probeVars, started, disk, done, proof, alarms>>
      /\ UNCHANGED <<work, live>>
  BY DEF ParcelInv, RehearsalTypeOK, FailAttempt, probeVars
<1>2. CASE run' = NoRun
  BY <1>1, <1>2, EndsKeeps DEF Ends
<1>3. CASE run.attempt # MaxAttempts
             /\ run' = [run EXCEPT !.attempt = @ + 1, !.failure = kind]
  <2>1. run.attempt + 1 \in 1 .. MaxAttempts /\ run \in Rehearsal
    BY <1>1, <1>3, RunTyped, RehearsalConstants
  <2>2. run' \in Rehearsal
    BY <1>3, <2>1, ZenonT(30) DEF Rehearsal
  <2>3. /\ run'.snapshot = run.snapshot /\ run'.start = run.start /\ run'.pages = run.pages
        /\ run'.retried = run.retried /\ run'.before = run.before
        /\ run'.throughout = run.throughout /\ run'.deleted = run.deleted
        /\ run'.at = run.at
    BY <1>3, <2>1, ZenonT(30) DEF Rehearsal
  <2>4. Underway'
    BY <1>1, <2>3, UnderwayStays
  <2>5. \A e \in done' : Executed(e)'
    BY <1>1, ExecutionsStay
  <2>6. done' \subseteq Executions
    BY <1>1 DEF RehearsalTypeOK
  <2>7. QED
    BY <1>1, <2>2, <2>4, <2>5, <2>6, RehearsalKeeps
<1>4. QED
  BY <1>2, <1>3 DEF FailAttempt

\* A prefix that is saved is the one that was read.
LEMMA CheckpointKeeps == ASSUME ParcelInv, Checkpoint PROVE ParcelInv'
<1>1. /\ RehearsalTypeOK /\ Underway /\ run.at = "checkpoint"
      /\ started' \in 0 .. work.rehearsals
      /\ run' = [run EXCEPT !.at = "page", !.checkpoint = run.pages]
      /\ UNCHANGED <<probeVars, started, disk, done, proof, alarms>>
      /\ UNCHANGED <<work, live>>
  BY DEF ParcelInv, RehearsalTypeOK, Checkpoint, probeVars
<1>2. run \in Rehearsal
  BY <1>1, RunTyped
<1>3. run' \in Rehearsal
  BY <1>1, <1>2 DEF Rehearsal
<1>4. /\ run'.snapshot = run.snapshot /\ run'.start = run.start /\ run'.pages = run.pages
      /\ run'.retried = run.retried /\ run'.before = run.before
      /\ run'.throughout = run.throughout /\ run'.deleted = run.deleted
      /\ run'.at = "page"
  BY <1>1, <1>2 DEF Rehearsal
<1>5. Underway'
  BY <1>1, <1>4, UnderwayStays
<1>6. \A e \in done' : Executed(e)'
  BY <1>1, ExecutionsStay
<1>7. done' \subseteq Executions
  BY <1>1 DEF RehearsalTypeOK
<1>8. QED
  BY <1>1, <1>3, <1>5, <1>6, <1>7, RehearsalKeeps

\* The proof bundle is an execution.
LEMMA SaveProofKeeps == ASSUME ParcelInv, NEW e \in done, SaveProof(e) PROVE ParcelInv'
<1>1. /\ RehearsalTypeOK /\ proof' = e
      /\ UNCHANGED <<work, live, edits, ready, probe, rows, run, started, disk, done, alarms>>
  BY DEF ParcelInv, SaveProof, probeVars
<1>2. RehearsalTypeOK'
  BY <1>1 DEF RehearsalTypeOK, Assessments
<1>3. /\ \A p \in Probes : Steadily(p)'
      /\ Stored'
      /\ \A a \in rows'.assessments : Assessed(a)'
  BY <1>1, ProbesUntouched DEF probeVars
<1>4. (\A d \in done' : Executed(d)') /\ Underway' /\ "steady" \notin alarms'
  BY <1>1, RehearsalUntouched
<1>5. QED
  BY <1>2, <1>3, <1>4 DEF ParcelInv

\* A stored manifest is an execution's.
LEMMA StoreManifestKeeps ==
  ASSUME ParcelInv, NEW e \in done, StoreManifest(e)
  PROVE  ParcelInv'
<1>1. /\ RehearsalTypeOK /\ Stored /\ rows' = [rows EXCEPT !.manifests = @ \cup {e}]
      /\ UNCHANGED <<work, live, edits, ready, probe, run, started, disk, done, proof, alarms>>
  BY DEF ParcelInv, StoreManifest
<1>2. /\ rows' \in Rows /\ rows'.observations = rows.observations
      /\ rows'.assessments = rows.assessments
  <2>1. rows \in Rows
    BY <1>1 DEF RehearsalTypeOK, Rows
  <2>2. QED
    BY <1>1, <2>1 DEF Rows
<1>3. RehearsalTypeOK'
  BY <1>1, <1>2, RowsTyped
<1>4. AnswersStay
  BY <1>1, AnswersUntouched
<1>5. \A p \in Probes : Steadily(p)'
  BY <1>1, SteadyStays DEF ParcelInv
<1>6. Stored'
  BY <1>1, <1>2, <1>4, StoredStays
<1>7. ASSUME NEW a \in rows'.assessments PROVE Assessed(a)'
  <2>1. Assessed(a) /\ rows.observations \subseteq rows'.observations
    BY <1>2, <1>7 DEF ParcelInv
  <2>2. QED
    BY <1>1, <1>4, <2>1, AssessmentStays
<1>8. (\A d \in done' : Executed(d)') /\ Underway' /\ "steady" \notin alarms'
  BY <1>1, RehearsalUntouched
<1>9. QED
  BY <1>3, <1>5, <1>6, <1>7, <1>8 DEF ParcelInv

-----------------------------------------------------------------------------
\* A number of pages.
LEMMA PagesCount ==
  ASSUME NEW n \in Nat, NEW m \in Nat
  PROVE  /\ PagesFor(n) \in Nat
         /\ m < PagesFor(n) <=> m * PageSize < n
         /\ m * PageSize \in Nat /\ (m + 1) * PageSize = m * PageSize + PageSize
<1>1. PageSize \in Nat \ {0}
  BY RehearsalConstants
<1>2. \A d \in Nat \ {0} : (n + d - 1) \div d \in Nat
  OBVIOUS
<1>3. \A d \in Nat \ {0} : m < (n + d - 1) \div d <=> m * d < n
  OBVIOUS
<1>4. \A d \in Nat : m * d \in Nat /\ (m + 1) * d = m * d + d
  OBVIOUS
<1>5. QED
  BY <1>1, <1>2, <1>3, <1>4 DEF PagesFor

\* A rehearsal starts from what is there.
LEMMA StartRehearsalKeeps ==
  ASSUME ParcelInv, NEW s \in Snapshots, StartRehearsal(s)
  PROVE  ParcelInv'
<1> DEFINE count == Cardinality(live)
<1>1. /\ RehearsalTypeOK /\ count > 0 /\ count \in Nat /\ live \subseteq work.ids
      /\ live \subseteq Nat /\ started' = started + 1
      /\ UNCHANGED <<probeVars, done, proof, alarms>> /\ UNCHANGED <<work, live>>
      /\ disk' = disk \cup {Artifact(0, "starting_count", <<count>>)}
  BY LayerTyped DEF ParcelInv, RehearsalTypeOK, StartRehearsal, Retained, probeVars
<1>2. started' \in 0 .. work.rehearsals
  <2>1. work.rehearsals \in Nat
    BY <1>1, ProbeConstants DEF RehearsalTypeOK
  <2>2. QED
    BY <1>1, <2>1 DEF RehearsalTypeOK, StartRehearsal
<1>3. CASE run' = NoRun
  BY <1>1, <1>2, <1>3, EndsKeeps DEF Ends
<1>4. CASE /\ ~ (PagesFor(count) < 2) /\ ~ (CheckpointAfter >= PagesFor(count))
           /\ ~ (InjectAt >= PagesFor(count))
           /\ run' = [NoRun EXCEPT !.at = "page", !.snapshot = s, !.start = count,
                                   !.before = live, !.throughout = live]
  <2> HIDE DEF count
  <2>1. NoRun \in Rehearsal
    BY NoRunTyped
  <2>2. run' \in Rehearsal
    BY <1>1, <1>4, <2>1 DEF Rehearsal
  <2>3. /\ run'.at = "page" /\ run'.snapshot = s /\ run'.start = count /\ run'.pages = <<>>
        /\ run'.retried = {} /\ run'.before = live /\ run'.throughout = live
        /\ run'.deleted = {}
    BY <1>4 DEF NoRun
  <2>4. Observed' = <<>> /\ ToSet(<<>>) = {} /\ Len(<<>>) = 0 /\ DOMAIN <<>> = {}
    BY <2>3, FlattenEmpty DEF Observed, ToSet
  <2>5. Watched'
    BY <1>1, <2>3, <2>4 DEF Watched, count
  <2>6. Ordered'
    BY <2>4 DEF Ordered
  <2>7. Paged'
    <3>1. /\ PagesFor(count) \in Nat /\ CheckpointAfter \in Nat /\ InjectAt \in Nat
          /\ PageSize \in Nat
      BY <1>1, PagesCount, RehearsalConstants
    <3>2. /\ CheckpointAfter < PagesFor(count) /\ InjectAt < PagesFor(count)
          /\ 0 < PagesFor(count) /\ ~ (0 > InjectAt) /\ 0 = 0 * PageSize
      BY <1>4, <3>1
    <3>3. PagesFor(run'.start) = PagesFor(count)
      BY <2>3
    <3>4. QED
      BY <2>3, <2>4, <3>2, <3>3 DEF Paged, PagesFor
  <2>8. Kept'
    BY <1>1, <2>3, <2>4 DEF Kept
  <2>9. Underway'
    BY <2>5, <2>6, <2>7, <2>8 DEF Underway
  <2>10. \A e \in done' : Executed(e)'
    BY <1>1, ExecutionsStay
  <2>11. done' \subseteq Executions
    BY <1>1 DEF RehearsalTypeOK
  <2>12. QED
    BY <1>1, <1>2, <2>2, <2>9, <2>10, <2>11, RehearsalKeeps
<1>5. QED
  BY <1>3, <1>4 DEF StartRehearsal

\* What a probe was told when nothing moved is less after an edit.
LEMMA EditProbes ==
  ASSUME ParcelInv, NEW records, records \subseteq work.ids, EditedTo(records),
         UNCHANGED <<started, disk, done, proof, alarms>>
  PROVE  /\ probe' \in [Probes -> Probe \cup {Nil}]
         /\ \A p \in Probes : probe'[p] # Nil => Len(probe'[p].answers) <= Len(Kinds)
         /\ AnswersStay /\ \A p \in Probes : Steadily(p)'
<1>1. /\ RehearsalTypeOK /\ live' = records /\ UNCHANGED <<work, ready, rows>>
      /\ probe' = [p \in Probes |->
           IF Running(p) THEN [probe[p] EXCEPT !.steady = Len(probe[p].answers) = 0]
           ELSE probe[p]]
  BY DEF ParcelInv, EditedTo
<1>2. ASSUME NEW p \in Probes, Running(p)
      PROVE  /\ probe[p] # Nil /\ probe'[p] # Nil /\ probe'[p] \in Probe
             /\ probe'[p].snapshot = probe[p].snapshot /\ probe'[p].size = probe[p].size
             /\ probe'[p].answers = probe[p].answers
             /\ probe'[p].steady = (Len(probe[p].answers) = 0)
  <2>1. probe[p] # Nil
    BY <1>2 DEF Running
  <2>2. probe[p] \in Probe
    BY <1>1, <2>1, ProbeTyped
  <2> DEFINE b == Len(probe[p].answers) = 0
  <2>3. b \in BOOLEAN /\ probe'[p] = [probe[p] EXCEPT !.steady = b]
    BY <1>1, <1>2
  <2> HIDE DEF b
  <2>4. /\ probe'[p] \in Probe /\ probe'[p].snapshot = probe[p].snapshot
        /\ probe'[p].size = probe[p].size
        /\ probe'[p].answers = probe[p].answers /\ probe'[p].steady = b
    BY <2>2, <2>3 DEF Probe
  <2>5. QED
    BY <2>1, <2>4, NilIsNoProbe DEF b
<1>3. ASSUME NEW p \in Probes, ~Running(p) PROVE probe'[p] = probe[p]
  BY <1>1, <1>3
<1>4. probe' \in [Probes -> Probe \cup {Nil}]
  <2>1. \A p \in Probes : probe'[p] \in Probe \cup {Nil}
    BY <1>1, <1>2, <1>3 DEF RehearsalTypeOK
  <2>2. probe' = [p \in Probes |-> probe'[p]]
    BY <1>1
  <2>3. QED
    BY <2>1, <2>2
<1>5. \A p \in Probes : probe'[p] # Nil => Len(probe'[p].answers) <= Len(Kinds)
  BY <1>1, <1>2, <1>3 DEF RehearsalTypeOK
<1>6. AnswersStay
  <2>1. ASSUME NEW p \in Probes, probe[p] # Nil
        PROVE  /\ probe'[p] # Nil /\ probe'[p].snapshot = probe[p].snapshot
               /\ probe'[p].size = probe[p].size
               /\ probe'[p].answers = probe[p].answers
    BY <1>2, <1>3, <2>1
  <2>2. ASSUME NEW p \in Probes, probe[p] # Nil, NEW k \in 1 .. Len(probe[p].answers)
        PROVE  k <= Len(probe[p].answers)
    <3>1. Len(probe[p].answers) \in 0 .. 4
      BY <1>1, <2>2, ProbeTyped
    <3> DEFINE m == Len(probe[p].answers)
    <3> HIDE DEF m
    <3>2. m \in 0 .. 4 /\ k \in 1 .. m => k <= m
      OBVIOUS
    <3>3. QED
      BY <2>2, <3>1, <3>2 DEF m
  <2>3. QED
    BY <2>1, <2>2 DEF AnswersStay
<1>7. ASSUME NEW p \in Probes PROVE Steadily(p)'
  <2>1. CASE Running(p) /\ Len(probe[p].answers) = 0
    <3>1. \A k \in 1 .. Len(probe'[p].answers) : FALSE
      BY <1>2, <2>1
    <3>2. live' \in SUBSET work'.ids
      BY <1>1
    <3>3. QED
      BY <3>1, <3>2, Zenon DEF Steadily
  <2>2. CASE Running(p) /\ Len(probe[p].answers) # 0
    BY <1>2, <2>2 DEF Steadily
  <2>3. CASE ~Running(p)
    <3>1. probe'[p] = probe[p] /\ Steadily(p) /\ UNCHANGED work
      BY <1>1, <1>3, <2>3 DEF ParcelInv
    <3>2. Running(p)' = Running(p)
      BY <3>1 DEF Running
    <3>3. QED
      BY <2>3, <3>1, <3>2, Zenon DEF Steadily
  <2>4. QED
    BY <2>1, <2>2, <2>3
<1>8. QED
  BY <1>4, <1>5, <1>6, <1>7

\* What was there all the time and what was deleted move with the layer.
LEMMA EditKeeps == ASSUME ParcelInv, NEW id \in work.ids, Edit(id) PROVE ParcelInv'
<1> DEFINE records == IF id \in live THEN live \ {id} ELSE live \cup {id}
<1>1. /\ RehearsalTypeOK /\ Stored /\ Underway /\ EditedTo(records) /\ live' = records
      /\ UNCHANGED <<work, ready, rows, started, disk, done, proof, alarms>>
      /\ edits < work.edits /\ edits' = edits + 1
      /\ run' = IF run.at = "idle" THEN run
                ELSE [run EXCEPT !.throughout = @ \ {id},
                                 !.deleted = IF id \in live THEN @ \cup {id} ELSE @]
  BY DEF ParcelInv, Edit, EditedTo
<1>2. records \subseteq work.ids /\ work.ids \subseteq Nat /\ IsFiniteSet(work.ids)
      /\ work.edits \in Nat
  BY <1>1, ProbeConstants DEF RehearsalTypeOK
<1>3. /\ probe' \in [Probes -> Probe \cup {Nil}]
      /\ \A p \in Probes : probe'[p] # Nil => Len(probe'[p].answers) <= Len(Kinds)
      /\ AnswersStay /\ \A p \in Probes : Steadily(p)'
  <2> HIDE DEF records
  <2>1. QED
    BY <1>1, <1>2, EditProbes
<1>4. run' \in Rehearsal
  <2>1. run \in Rehearsal
    BY <1>1, RunTyped
  <2> DEFINE gone == IF id \in live THEN run.deleted \cup {id} ELSE run.deleted
  <2>2. run.throughout \ {id} \subseteq Nat /\ gone \subseteq Nat
    BY <1>1, <1>2, RunTyped
  <2>3. run' = run \/ run' = [run EXCEPT !.throughout = @ \ {id}, !.deleted = gone]
    BY <1>1
  <2> HIDE DEF gone
  <2>4. QED
    BY <2>1, <2>2, <2>3 DEF Rehearsal
<1>5. RehearsalTypeOK'
  BY <1>1, <1>2, <1>3, <1>4 DEF RehearsalTypeOK, Assessments
<1>6. Underway'
  <2>1. CASE run.at = "idle"
    BY <1>1, <2>1 DEF Underway
  <2>2. CASE run.at # "idle"
    <3> DEFINE gone == IF id \in live THEN run.deleted \cup {id} ELSE run.deleted
    <3>1. run' = [run EXCEPT !.throughout = @ \ {id}, !.deleted = gone]
      BY <1>1, <2>2
    <3>2. /\ run'.snapshot = run.snapshot /\ run'.start = run.start /\ run'.pages = run.pages
          /\ run'.retried = run.retried /\ run'.before = run.before
          /\ run'.throughout = run.throughout \ {id} /\ run'.deleted = gone
          /\ run'.at = run.at
      <4>1. run \in Rehearsal
        BY <1>1, RunTyped
      <4> HIDE DEF gone
      <4>2. QED
        BY <3>1, <4>1 DEF Rehearsal
    <3>3. Observed' = Observed /\ Watched /\ Ordered /\ Paged /\ Kept
      BY <1>1, <2>2, <3>2 DEF Observed, Underway
    <3>4. Watched'
      <4>1. run'.throughout = run'.before \ run'.deleted
        BY <3>2, <3>3 DEF Watched
      <4>2. run'.throughout \subseteq live' /\ run'.deleted \subseteq work.ids
        BY <1>1, <3>2, <3>3 DEF Watched
      <4>3. ToSet(Observed) \subseteq live' \cup run'.deleted
        BY <1>1, <3>2, <3>3 DEF Watched
      <4>4. QED
        BY <1>1, <3>2, <3>3, <4>1, <4>2, <4>3 DEF Watched
    <3>5. Ordered'
      <4>1. ASSUME Observed # <<>>
            PROVE  Cardinality({r \in run'.throughout : r <= Last(Observed)}) <= Len(Observed)
        <5> DEFINE A == {r \in run.throughout : r <= Last(Observed)}
                   B == {r \in run'.throughout : r <= Last(Observed)}
        <5>1. B \subseteq A /\ A \subseteq work.ids
          BY <1>2, <3>2, <3>3 DEF Watched
        <5>2. Cardinality(A) <= Len(Observed)
          BY <3>3, <4>1 DEF Ordered
        <5> HIDE DEF A, B
        <5>3. /\ IsFiniteSet(A) /\ Cardinality(A) \in Nat
              /\ IsFiniteSet(B) /\ Cardinality(B) \in Nat
              /\ Cardinality(B) <= Cardinality(A)
          <6>1. IsFiniteSet(A)
            BY <1>2, <5>1, FS_Subset
          <6>2. QED
            BY <5>1, <6>1, FS_Subset, FS_CardinalityType
        <5>4. Len(Observed) \in Nat
          BY <1>1, RunTyped
        <5>5. Cardinality(B) <= Len(Observed)
          BY <5>2, <5>3, <5>4
        <5>6. QED
          BY <5>5 DEF B
      <4>2. QED
        BY <3>3, <4>1 DEF Ordered
    <3>6. Paged'
      BY <3>2, <3>3, Zenon DEF Paged
    <3>7. Kept'
      BY <1>1, <3>2, <3>3 DEF Kept
    <3>8. QED
      BY <3>4, <3>5, <3>6, <3>7 DEF Underway
  <2>3. QED
    BY <2>1, <2>2
<1>7. Stored'
  BY <1>1, <1>3, StoredStays
<1>8. ASSUME NEW a \in rows'.assessments PROVE Assessed(a)'
  <2>1. Assessed(a) /\ rows.observations \subseteq rows'.observations
    BY <1>1, <1>8 DEF ParcelInv
  <2>2. QED
    BY <1>1, <1>3, <2>1, AssessmentStays
<1>9. \A e \in done' : Executed(e)'
  BY <1>1, ExecutionsStay
<1>10. "steady" \notin alarms'
  BY <1>1 DEF ParcelInv
<1>11. QED
  BY <1>3, <1>5, <1>6, <1>7, <1>8, <1>9, <1>10 DEF ParcelInv

-----------------------------------------------------------------------------
\* The next page the layer answers with.
NextPage == Page(live, Len(Observed), PageSize)

\* Where the next page begins, and what it lists.
LEMMA NextPageIs ==
  ASSUME ParcelInv, run.at = "page"
  PROVE  LET ids == NextPage n == Len(Observed) IN
         /\ n = Len(run.pages) * PageSize /\ n < run.start /\ n \in Nat
         /\ Cardinality(live) \in Nat /\ PageSize \in Nat \ {0}
         /\ ids \in Seq(Nat) /\ ids \in Seq(live) /\ Len(ids) \in Nat /\ Len(ids) <= PageSize
         /\ Len(ids) = AtMost(AtLeast(Cardinality(live), n) - n, PageSize)
         /\ \A i \in 1 .. Len(ids) : /\ ids[i] \in live /\ ids[i] \in Nat
                                     /\ Cardinality({r \in live : r <= ids[i]}) = n + i
         /\ \A i, k \in 1 .. Len(ids) : i < k => ids[i] < ids[k]
<1> DEFINE n == Len(Observed)
           ids == NextPage
<1>1. /\ RehearsalTypeOK /\ Paged /\ live \subseteq work.ids /\ run.start \in Nat
      /\ Len(run.pages) \in Nat /\ n \in Nat
  BY RunTyped DEF ParcelInv, Underway, RehearsalTypeOK
<1>2. live \subseteq Nat /\ IsFiniteSet(live) /\ Cardinality(live) \in Nat
  BY <1>1, LayerTyped
<1>3. /\ n = Len(run.pages) * PageSize /\ n < run.start
      /\ Len(run.pages) * PageSize \in Nat /\ PageSize \in Nat \ {0} /\ PageSize \in Nat
  <2>1. Len(run.pages) < PagesFor(run.start) /\ n = Len(run.pages) * PageSize
    BY <1>1 DEF Paged
  <2>2. QED
    BY <1>1, <2>1, PagesCount, RehearsalConstants
<1>5. /\ ids \in Seq(Nat) /\ ids \in Seq(live)
      /\ Len(ids) = AtMost(AtLeast(Cardinality(live), n) - n, PageSize)
      /\ \A i \in 1 .. Len(ids) : /\ ids[i] \in live
                                  /\ Cardinality({r \in live : r <= ids[i]}) = n + i
      /\ \A i, k \in 1 .. Len(ids) : i < k => ids[i] < ids[k]
  <2>1. /\ live \subseteq Nat /\ IsFiniteSet(live) /\ Len(Observed) \in Nat
        /\ PageSize \in Nat
    BY <1>1, <1>2, <1>3
  <2>2. Lists(ids, live, n, PageSize)
    BY <2>1, PageLists DEF NextPage
  <2> HIDE DEF n, ids
  <2>3. QED
    BY <2>2 DEF Lists
<1> HIDE DEF n, ids
<1>6. Len(ids) \in Nat /\ Len(ids) <= PageSize
  BY <1>1, <1>2, <1>3, <1>5 DEF AtMost, AtLeast
<1>7. \A i \in 1 .. Len(ids) : ids[i] \in Nat
  BY <1>2, <1>5
<1>8. QED
  BY <1>1, <1>2, <1>3, <1>5, <1>6, <1>7 DEF n, ids

\* Of a layer that nobody edited the next page is in sequence and full.
LEMMA SteadyPageFits ==
  ASSUME ParcelInv, run.at = "page", run.throughout = run.before, live = run.before
  PROVE  NextPage # <<>> /\ InSequence(NextPage) /\ Full(NextPage)
<1> DEFINE n == Len(Observed)
           ids == NextPage
           count == Cardinality(live)
<1>1. /\ n < run.start /\ n \in Nat /\ count \in Nat /\ PageSize \in Nat \ {0}
      /\ ids \in Seq(Nat) /\ Len(ids) \in Nat
      /\ Len(ids) = AtMost(AtLeast(count, n) - n, PageSize)
      /\ \A i \in 1 .. Len(ids) : /\ ids[i] \in live /\ ids[i] \in Nat
                                  /\ Cardinality({r \in live : r <= ids[i]}) = n + i
  BY NextPageIs
<1>2. /\ RehearsalTypeOK /\ Watched /\ Ordered /\ live \subseteq Nat /\ IsFiniteSet(live)
      /\ run.start = count /\ run.start \in Nat
  <2>1. RehearsalTypeOK /\ Watched /\ Ordered /\ live \subseteq work.ids
    BY DEF ParcelInv, Underway, RehearsalTypeOK
  <2>2. QED
    BY <2>1, LayerTyped, RunTyped DEF Watched
<1> HIDE DEF n, ids, count
<1>3. /\ Len(ids) > 0 /\ n + Len(ids) <= run.start
      /\ Len(ids) < PageSize => n + Len(ids) = run.start
  BY <1>1, <1>2 DEF AtMost, AtLeast
<1>4. ids # <<>> /\ 1 \in 1 .. Len(ids)
  BY <1>1, <1>3
<1>5. ASSUME Observed # <<>> PROVE ids[1] > Last(Observed)
  <2> DEFINE last == Last(Observed)
             A == {r \in live : r <= ids[1]}
             B == {r \in live : r <= last}
  <2>1. last \in Nat /\ ids[1] \in Nat
    <3>1. Observed \in Seq(Nat)
      BY <1>2, RunTyped
    <3>2. QED
      BY <1>1, <1>4, <1>5, <3>1 DEF Last
  <2>2. Cardinality(B) <= n
    BY <1>2, <1>5 DEF Ordered, n
  <2>3. Cardinality(A) = n + 1
    BY <1>1, <1>4
  <2>4. SUFFICES ASSUME ids[1] <= last PROVE FALSE
    <3> HIDE DEF last, A, B
    <3>1. QED
      BY <2>1 DEF last
  <2> HIDE DEF last
  <2>5. A \subseteq B /\ B \subseteq live
    <3>1. ASSUME NEW r \in A PROVE r \in B
      BY <1>2, <2>1, <2>4
    <3>2. QED
      BY <3>1
  <2> HIDE DEF A, B
  <2>6. IsFiniteSet(B) /\ Cardinality(A) <= Cardinality(B) /\ Cardinality(B) \in Nat
    <3>1. IsFiniteSet(B)
      BY <1>2, <2>5, FS_Subset
    <3>2. QED
      BY <2>5, <3>1, FS_Subset, FS_CardinalityType
  <2>7. QED
    BY <1>1, <2>2, <2>3, <2>6
<1>6. QED
  BY <1>3, <1>4, <1>5 DEF InSequence, Full, n, ids

\* A page that fits is entered behind those before it.
LEMMA PageEntered ==
  ASSUME ParcelInv, run.at = "page", NextPage # <<>>, InSequence(NextPage), ~Injected,
         Full(NextPage), UNCHANGED <<probeVars, started, done, proof, alarms>>,
         Retained(Len(run.pages) + 1, "page", NextPage),
         run' = [run EXCEPT
                   !.pages = Append(@, NextPage), !.attempt = 1, !.failure = Nil,
                   !.retried = IF run.attempt > 1 THEN @ \cup {Len(run.pages)} ELSE @,
                   !.at = After(Append(run.pages, NextPage))]
  PROVE  run' \in Rehearsal /\ Underway'
<1> DEFINE n == Len(Observed)
           ids == NextPage
           m == Len(run.pages)
           pages == Append(run.pages, ids)
           at == After(pages)
           tried == IF run.attempt > 1 THEN run.retried \cup {m} ELSE run.retried
<1>1. /\ n = m * PageSize /\ n < run.start /\ n \in Nat /\ PageSize \in Nat \ {0}
      /\ ids \in Seq(Nat) /\ ids \in Seq(live) /\ Len(ids) \in Nat /\ Len(ids) <= PageSize
      /\ \A i \in 1 .. Len(ids) : /\ ids[i] \in live /\ ids[i] \in Nat
                                  /\ Cardinality({r \in live : r <= ids[i]}) = n + i
      /\ \A i, k \in 1 .. Len(ids) : i < k => ids[i] < ids[k]
  BY NextPageIs
<1>2. /\ RehearsalTypeOK /\ Watched /\ Ordered /\ Paged /\ Kept
      /\ live \subseteq Nat /\ IsFiniteSet(live) /\ live \subseteq work.ids
      /\ run \in Rehearsal /\ run.pages \in Seq(Seq(Nat)) /\ m \in Nat
      /\ Observed \in Seq(Nat) /\ run.start \in Nat /\ run.attempt \in 1 .. MaxAttempts
      /\ UNCHANGED <<work, live>>
  <2>1. RehearsalTypeOK /\ Watched /\ Ordered /\ Paged /\ Kept /\ live \subseteq work.ids
    BY DEF ParcelInv, Underway, RehearsalTypeOK
  <2>2. QED
    BY <2>1, LayerTyped, RunTyped DEF probeVars
<1>3. /\ Len(ids) > 0 /\ n + Len(ids) <= run.start
      /\ Len(ids) < PageSize => n + Len(ids) = run.start
      /\ Observed # <<>> => ids[1] > Last(Observed)
  <2>1. Len(ids) # 0
    <3> HIDE DEF ids
    <3>1. ids # <<>>
      BY DEF ids
    <3>2. QED
      BY <1>1, <3>1
  <2>2. QED
    BY <1>1, <2>1 DEF Full, InSequence
<1>4. /\ pages \in Seq(Seq(Nat)) /\ Len(pages) = m + 1 /\ pages[m + 1] = ids
      /\ \A i \in 1 .. m : pages[i] = run.pages[i]
      /\ DOMAIN pages = 1 .. m + 1 /\ DOMAIN run.pages = 1 .. m
  <2> HIDE DEF ids
  <2>1. QED
    BY <1>1, <1>2, SMTT(30)
<1>5. at \in {"page", "checkpoint", "count"}
  BY DEF After
<1>6. tried \subseteq Nat
  BY <1>2 DEF Rehearsal
<1> HIDE DEF ids, pages, at, tried
<1>7. /\ run' = [run EXCEPT !.pages = pages, !.attempt = 1, !.failure = Nil,
                            !.retried = tried, !.at = at]
      /\ disk' = disk \cup {Artifact(m + 1, "page", ids)}
  BY DEF pages, at, tried, ids, Retained
<1> HIDE DEF m
<1>8. /\ run' \in Rehearsal /\ run'.pages = pages /\ run'.retried = tried /\ run'.at = at
      /\ run'.snapshot = run.snapshot /\ run'.start = run.start /\ run'.before = run.before
      /\ run'.throughout = run.throughout /\ run'.deleted = run.deleted
  <2>1. 1 \in 1 .. MaxAttempts
    BY RehearsalConstants
  <2>2. run' \in Rehearsal
    BY <1>2, <1>4, <1>5, <1>6, <1>7, <2>1, ZenonT(60) DEF Rehearsal
  <2>3. /\ run'.pages = pages /\ run'.retried = tried /\ run'.at = at
        /\ run'.snapshot = run.snapshot /\ run'.start = run.start /\ run'.before = run.before
        /\ run'.throughout = run.throughout /\ run'.deleted = run.deleted
    BY <1>2, <1>7, ZenonT(60) DEF Rehearsal
  <2>4. QED
    BY <2>2, <2>3
<1>9. Observed' = Observed \o ids
  <2>1. FlattenSeq(pages) = FlattenSeq(run.pages) \o ids
    BY <1>1, <1>2, FlattenAppend DEF pages
  <2>2. QED
    BY <1>8, <2>1 DEF Observed
<1> DEFINE all == Observed \o ids
<1>10. /\ all \in Seq(Nat) /\ Len(all) = n + Len(ids)
       /\ \A i \in 1 .. n : all[i] = Observed[i]
       /\ \A i \in n + 1 .. n + Len(ids) : all[i] = ids[i - n] /\ i - n \in 1 .. Len(ids)
       /\ \A i \in 1 .. n : Observed[i] \in Nat
  BY <1>1, <1>2, Joined DEF n
<1>11. Watched'
  <2>1. ToSet(all) \subseteq ToSet(Observed) \cup live
    <3>1. ASSUME NEW i \in 1 .. Len(all) PROVE all[i] \in ToSet(Observed) \cup live
      <4>1. CASE i \in 1 .. n
        BY <1>2, <1>10, <4>1 DEF ToSet
      <4>2. CASE i \in n + 1 .. n + Len(ids)
        <5>1. i - n \in 1 .. Len(ids)
          BY <1>1, <4>2
        <5>2. QED
          BY <1>1, <1>10, <4>2, <5>1
      <4>3. QED
        BY <1>1, <1>10, <4>1, <4>2
    <3>2. DOMAIN all = 1 .. Len(all)
      BY <1>10
    <3> HIDE DEF all
    <3>3. QED
      BY <3>1, <3>2 DEF ToSet
  <2> HIDE DEF all
  <2>2. ToSet(all) \subseteq live \cup run.deleted
    BY <1>2, <2>1 DEF Watched
  <2>3. QED
    BY <1>2, <1>8, <1>9, <2>2 DEF Watched, all
<1>12. Ordered'
  <2>1. ASSUME NEW i \in 1 .. Len(all), NEW k \in 1 .. Len(all), i < k
        PROVE  all[i] < all[k]
    <3>1. CASE k \in 1 .. n
      <4>1. i \in 1 .. n
        BY <1>1, <1>10, <2>1, <3>1
      <4>2. QED
        BY <1>2, <1>10, <2>1, <3>1, <4>1 DEF Ordered
    <3>2. CASE i \in n + 1 .. n + Len(ids)
      <4>1. /\ i - n \in 1 .. Len(ids) /\ k - n \in 1 .. Len(ids) /\ i - n < k - n
            /\ k \in n + 1 .. n + Len(ids)
        BY <1>1, <1>10, <2>1, <3>2
      <4>2. QED
        BY <1>1, <1>10, <3>2, <4>1
    <3>3. CASE i \in 1 .. n /\ k \in n + 1 .. n + Len(ids)
      <4>1. k - n \in 1 .. Len(ids) /\ n \in 1 .. n /\ Observed # <<>> /\ 1 \in 1 .. Len(ids)
        <5>1. 1 <= n /\ k - n >= 1 /\ k - n <= Len(ids) /\ k \in Int
          BY <1>1, <3>3
        <5>2. k - n \in 1 .. Len(ids) /\ n \in 1 .. n /\ 1 \in 1 .. Len(ids)
          BY <1>1, <5>1
        <5>3. Observed # <<>>
          BY <5>1 DEF n
        <5>4. QED
          BY <5>2, <5>3
      <4>2. /\ all[i] \in Nat /\ Last(Observed) \in Nat /\ ids[1] \in Nat
            /\ ids[k - n] \in Nat
        <5>1. Last(Observed) = Observed[n]
          BY DEF Last
        <5>2. Observed[n] \in Nat /\ ids[1] \in Nat /\ ids[k - n] \in Nat
          BY <1>1, <1>10, <4>1
        <5>3. all[i] = Observed[i] /\ Observed[i] \in Nat
          BY <1>10, <3>3
        <5>4. QED
          BY <5>1, <5>2, <5>3
      <4>3. Last(Observed) = Observed[n] /\ all[i] = Observed[i]
        BY <1>10, <3>3 DEF Last
      <4>4. i < n => Observed[i] < Observed[n]
        BY <1>2, <3>3, <4>1 DEF Ordered
      <4>5. i = n \/ i < n
        BY <1>1, <3>3
      <4>6. all[i] <= Last(Observed)
        BY <4>2, <4>3, <4>4, <4>5
      <4>7. ids[1] <= ids[k - n]
        <5>1. k - n = 1 \/ 1 < k - n
          BY <1>1, <3>3
        <5>2. CASE k - n = 1
          <6>1. ids[k - n] = ids[1]
            BY <5>2
          <6>2. QED
            BY <4>2, <6>1
        <5>3. CASE 1 < k - n
          <6>1. ids[1] < ids[k - n]
            BY <1>1, <4>1, <5>3
          <6>2. QED
            BY <4>2, <6>1
        <5>4. QED
          BY <5>1, <5>2, <5>3
      <4>8. ids[1] > Last(Observed) /\ all[k] = ids[k - n]
        BY <1>3, <1>10, <3>3, <4>1
      <4>9. Observed # <<>>
        BY <4>1
      <4> HIDE DEF all
      <4>10. QED
        BY <4>2, <4>6, <4>7, <4>8
    <3>4. k \in 1 .. n \/ i \in n + 1 .. n + Len(ids)
            \/ (i \in 1 .. n /\ k \in n + 1 .. n + Len(ids))
      <4>1. i \in 1 .. n + Len(ids) /\ k \in 1 .. n + Len(ids)
        BY <1>10
      <4> HIDE DEF all, n
      <4>2. QED
        BY <1>1, <4>1
    <3> HIDE DEF all, n
    <3>5. QED
      BY <3>1, <3>2, <3>3, <3>4
  <2>2. Cardinality({r \in run.throughout : r <= Last(all)}) <= Len(all)
    <3>1. /\ Len(ids) \in 1 .. Len(ids) /\ Len(all) \in n + 1 .. n + Len(ids)
          /\ Len(all) - n = Len(ids)
      BY <1>1, <1>3, <1>10
    <3>2. Last(all) = ids[Len(ids)]
      BY <1>10, <3>1 DEF Last
    <3> DEFINE A == {r \in run.throughout : r <= Last(all)}
               B == {r \in live : r <= Last(all)}
    <3>3. Cardinality(B) = Len(all)
      BY <1>1, <1>10, <3>1, <3>2
    <3>4. A \subseteq B /\ B \subseteq live
      BY <1>2 DEF Watched
    <3> HIDE DEF A, B
    <3>5. IsFiniteSet(B) /\ Cardinality(A) <= Cardinality(B)
      <4>1. IsFiniteSet(B)
        BY <1>2, <3>4, FS_Subset
      <4>2. QED
        BY <3>4, <4>1, FS_Subset
    <3>6. Cardinality(A) <= Len(all)
      BY <3>3, <3>5
    <3>7. QED
      BY <3>6 DEF A
  <2> HIDE DEF all
  <2>3. Observed' = all /\ run'.throughout = run.throughout
    BY <1>8, <1>9 DEF all
  <2>4. QED
    BY <2>1, <2>2, <2>3, Zenon DEF Ordered
<1>13. Kept'
  <2>1. ASSUME NEW i \in 1 .. m + 1 PROVE Artifact(i, "page", pages[i]) \in disk'
    <3>1. CASE i = m + 1
      BY <1>4, <1>7, <3>1
    <3>2. CASE i \in 1 .. m
      BY <1>2, <1>4, <1>7, <3>2 DEF Kept
    <3>3. QED
      BY <1>2, <3>1, <3>2 DEF m
  <2>2. Artifact(0, "starting_count", <<run.start>>) \in disk'
    BY <1>2, <1>7 DEF Kept
  <2>3. QED
    BY <1>4, <1>8, <2>1, <2>2 DEF Kept
<1>14. Paged'
  <2> DEFINE last == PagesFor(run.start)
  <2>1. /\ last \in Nat /\ (m < last <=> m * PageSize < run.start)
        /\ (m + 1 < last <=> (m + 1) * PageSize < run.start)
        /\ (m + 1) * PageSize = n + PageSize
    <3>1. m + 1 \in Nat /\ m \in Nat
      BY <1>2 DEF m
    <3>2. QED
      BY <1>1, <1>2, <3>1, PagesCount DEF m
  <2>2. CheckpointAfter < last /\ InjectAt < last /\ m < last
    BY <1>1, <1>2, <2>1 DEF Paged, m
  <2>3. /\ CheckpointAfter \in Nat /\ InjectAt \in Nat /\ m \in Nat
    BY <1>2, RehearsalConstants DEF m
  <2>4. at = IF m + 1 = CheckpointAfter THEN "checkpoint"
             ELSE IF m + 1 = last THEN "count" ELSE "page"
    <3>1. Len(pages) = m + 1
      BY <1>4
    <3> HIDE DEF last
    <3>2. at = CASE m + 1 = CheckpointAfter -> "checkpoint"
                 [] m + 1 = last -> "count"
                 [] OTHER -> "page"
      BY <3>1, Zenon DEF at, After, last
    <3>3. CheckpointAfter # last
      BY <2>1, <2>2, <2>3
    <3>4. QED
      BY <3>2, <3>3
  <2> HIDE DEF last
  <2>5. IF at = "count" THEN m + 1 = last /\ Len(all) = run.start
        ELSE m + 1 < last /\ Len(all) = (m + 1) * PageSize
    <3>1. CASE m + 1 < last
      <4>1. Len(ids) = PageSize
        <5>1. n \in Nat /\ PageSize \in Nat /\ Len(ids) \in Nat /\ run.start \in Nat
              /\ Len(ids) <= PageSize /\ n + PageSize < run.start
          BY <1>1, <1>2, <2>1, <3>1
        <5> HIDE DEF n
        <5>2. QED
          BY <1>3, <5>1
      <4>2. at # "count"
        BY <2>2, <2>3, <2>4, <3>1, <2>1
      <4> HIDE DEF all
      <4>3. QED
        BY <1>10, <2>1, <3>1, <4>1, <4>2
    <3>2. CASE ~ (m + 1 < last)
      <4>1. m + 1 = last
        BY <2>1, <2>2, <2>3, <3>2
      <4>2. at = "count"
        BY <2>2, <2>3, <2>4, <4>1
      <4>3. n + PageSize >= run.start
        BY <1>1, <1>2, <2>1, <3>2
      <4>4. n + Len(ids) = run.start
        <5>1. n \in Nat /\ PageSize \in Nat /\ Len(ids) \in Nat /\ run.start \in Nat
              /\ Len(ids) <= PageSize
          BY <1>1, <1>2
        <5> HIDE DEF n
        <5>2. QED
          BY <1>3, <4>3, <5>1
      <4> HIDE DEF all
      <4>5. QED
        BY <1>10, <4>1, <4>2, <4>4
    <3>3. QED
      BY <3>1, <3>2
  <2>6. m + 1 > InjectAt => InjectAt \in tried
    <3>1. CASE m > InjectAt
      <4>1. InjectAt \in run.retried
        BY <1>2, <3>1 DEF Paged, m
      <4>2. QED
        BY <4>1 DEF tried
    <3>2. CASE m = InjectAt
      <4>1. run.attempt > 1
        <5>1. run.attempt # 1
          BY <3>2 DEF Injected, m
        <5>2. run.attempt \in Nat /\ run.attempt >= 1
          BY <1>2, RehearsalConstants
        <5>3. QED
          BY <5>1, <5>2
      <4>2. QED
        BY <3>2, <4>1 DEF tried
    <3>3. QED
      BY <2>3, <3>1, <3>2
  <2>7. /\ run'.snapshot \in Snapshots /\ Len(run'.pages) = m + 1
        /\ Len(Observed') = Len(all) /\ PagesFor(run'.start) = last
    BY <1>2, <1>4, <1>8, <1>9 DEF Paged, last
  <2> HIDE DEF all
  <2>8. QED
    BY <1>8, <2>2, <2>5, <2>6, <2>7 DEF Paged, PagesFor
<1>15. QED
  BY <1>8, <1>11, <1>12, <1>13, <1>14 DEF Underway

-----------------------------------------------------------------------------
\* A list as long as there are records misses no more of those there all the time than it
\* lists deleted ones.
LEMMA MissedAreDeleted ==
  ASSUME NEW there, IsFiniteSet(there), NEW listed, IsFiniteSet(listed),
         NEW deleted, IsFiniteSet(deleted), NEW throughout, throughout \subseteq there,
         listed \subseteq there \cup deleted, Cardinality(listed) = Cardinality(there)
  PROVE  Cardinality(throughout \ listed) <= Cardinality(deleted)
<1>1. throughout \ listed \subseteq there \ listed /\ listed \ there \subseteq deleted
  OBVIOUS
<1>2. /\ IsFiniteSet(there \ listed) /\ IsFiniteSet(listed \ there)
      /\ Cardinality(there \ listed) = Cardinality(there) - Cardinality(there \cap listed)
      /\ Cardinality(listed \ there) = Cardinality(listed) - Cardinality(listed \cap there)
  BY FS_Difference
<1>3. there \cap listed = listed \cap there
  OBVIOUS
<1>4. /\ Cardinality(throughout \ listed) <= Cardinality(there \ listed)
      /\ Cardinality(listed \ there) <= Cardinality(deleted)
      /\ IsFiniteSet(throughout \ listed)
  BY <1>1, <1>2, FS_Subset
<1>5. /\ Cardinality(throughout \ listed) \in Nat /\ Cardinality(there \ listed) \in Nat
      /\ Cardinality(listed \ there) \in Nat /\ Cardinality(deleted) \in Nat
  BY <1>2, <1>4, FS_CardinalityType
<1>6. Cardinality(there \ listed) = Cardinality(listed \ there)
  BY <1>2, <1>3
<1>7. QED
  BY <1>4, <1>5, <1>6

\* A page is entered, or refused; over a layer nobody edited it is not refused.
LEMMA ReadPageKeeps == ASSUME ParcelInv, ReadPage PROVE ParcelInv'
<1>1. /\ run.at = "page" /\ RehearsalTypeOK /\ started' \in 0 .. work.rehearsals
      /\ done' \subseteq Executions /\ UNCHANGED <<probeVars, started, done, proof>>
  BY DEF ReadPage, ParcelInv, RehearsalTypeOK
<1>2. NextPage = Page(live, Len(run.pages) * PageSize, PageSize)
  <2>1. Len(Observed) = Len(run.pages) * PageSize
    BY <1>1, NextPageIs
  <2>2. QED
    BY <2>1 DEF NextPage
<1>3. CASE NextPage # <<>> /\ InSequence(NextPage) /\ Full(NextPage)
  <2>1. /\ ~Injected /\ Retained(Len(run.pages) + 1, "page", NextPage)
        /\ run' = [run EXCEPT
             !.pages = Append(@, NextPage), !.attempt = 1, !.failure = Nil,
             !.retried = IF run.attempt > 1 THEN @ \cup {Len(run.pages)} ELSE @,
             !.at = After(Append(run.pages, NextPage))]
        /\ UNCHANGED alarms
    BY <1>2, <1>3, Zenon DEF ReadPage
  <2>2. run' \in Rehearsal /\ Underway'
    BY <1>1, <1>3, <2>1, PageEntered
  <2>3. \A e \in done' : Executed(e)'
    BY <1>1, <2>1, ExecutionsStay DEF Retained
  <2>4. QED
    BY <1>1, <2>1, <2>2, <2>3, RehearsalKeeps
<1>4. CASE ~(NextPage # <<>> /\ InSequence(NextPage) /\ Full(NextPage))
  <2>1. Refuse /\ UNCHANGED disk
    BY <1>2, <1>4, Zenon DEF ReadPage
  <2>2. ~(run.throughout = run.before /\ live = run.before)
    BY <1>1, <1>4, SteadyPageFits
  <2>3. Ends /\ alarms' = alarms \cup {"moved"}
    BY <2>1, <2>2 DEF Refuse
  <2>4. QED
    BY <1>1, <2>1, <2>3, EndsKeeps
<1>5. QED
  BY <1>3, <1>4

\* What is counted over a layer nobody edited agrees.
LEMMA SteadyCountAgrees ==
  ASSUME ParcelInv, run.at = "count", run.throughout = run.before, live = run.before
  PROVE  Reconciled(Cardinality(live))
<1>1. Watched /\ Paged
  BY DEF ParcelInv, Underway
<1>2. InjectAt < PagesFor(run.start) /\ Len(run.pages) = PagesFor(run.start)
      /\ Len(Observed) = run.start /\ Cardinality(live) = run.start
  BY <1>1 DEF Paged, Watched
<1>3. InjectAt \in run.retried
  <2>1. Len(run.pages) \in Nat /\ InjectAt \in Nat
    BY RunTyped, RehearsalConstants DEF ParcelInv
  <2>2. Len(run.pages) > InjectAt
    BY <1>2, <2>1
  <2>3. QED
    BY <1>1, <2>2 DEF Paged
<1>4. QED
  BY <1>2, <1>3 DEF Reconciled

\* A rehearsal that reconciles misses no more than was deleted, and its receipts name
\* what is retained.
LEMMA FinishExecutes ==
  ASSUME ParcelInv, run.at = "count", Reconciled(Cardinality(live)),
         NEW e, e = Execution,
         Retained(Len(run.pages) + 1, "ending_count", <<Cardinality(live)>>)
  PROVE  e \in Executions /\ Executed(e)'
<1> DEFINE ids == FlattenSeq(e.pages)
<1>1. /\ RehearsalTypeOK /\ Watched /\ Ordered /\ Paged /\ Kept /\ live \subseteq work.ids
      /\ run \in Rehearsal
  BY RunTyped DEF ParcelInv, Underway, RehearsalTypeOK
<1>2. /\ e.snapshot = run.snapshot /\ e.start = run.start /\ e.pages = run.pages
      /\ e.throughout = run.throughout /\ e.deleted = run.deleted
      /\ ids = Observed
  BY DEF Execution, Observed
<1>3. e \in Executions
  <2>1. run.snapshot \in Snapshots
    BY <1>1 DEF Paged
  <2>2. QED
    BY <1>1, <2>1 DEF Execution, Executions, Rehearsal
<1>4. Len(Observed) = run.start /\ Cardinality(live) = run.start
  BY DEF Reconciled
<1>5. /\ Observed \in Seq(Nat) /\ IsInjective(Observed)
      /\ IsFiniteSet(ToSet(Observed)) /\ Cardinality(ToSet(Observed)) = run.start
  <2>1. Observed \in Seq(Nat)
    BY <1>1, RunTyped
  <2>2. IsInjective(Observed)
    BY <1>1, <2>1, InOrder DEF Ordered
  <2>3. QED
    BY <1>4, <2>1, <2>2, Listed
<1>6. Cardinality(run.throughout \ ToSet(Observed)) <= Cardinality(run.deleted)
  <2>1. /\ run.throughout \subseteq live /\ run.deleted \subseteq work.ids
        /\ ToSet(Observed) \subseteq live \cup run.deleted
    BY <1>1 DEF Watched
  <2>2. IsFiniteSet(live) /\ IsFiniteSet(run.deleted)
    BY <1>1, <2>1, LayerTyped
  <2>3. QED
    BY <1>4, <1>5, <2>1, <2>2, MissedAreDeleted
<1>7. Receipts(e) \subseteq disk'
  <2>1. disk' = disk \cup {Artifact(Len(run.pages) + 1, "ending_count", <<run.start>>)}
    BY <1>4 DEF Retained
  <2>2. /\ Artifact(0, "starting_count", <<e.start>>) \in disk'
        /\ Artifact(Len(e.pages) + 1, "ending_count", <<e.start>>) \in disk'
        /\ \A i \in DOMAIN e.pages : Artifact(i, "page", e.pages[i]) \in disk'
    BY <1>1, <1>2, <2>1 DEF Kept
  <2>3. QED
    BY <2>2 DEF Receipts
<1>8. Receipts(e)' = Receipts(e)
  BY DEF Receipts, Artifact
<1>9. Executed(e)'
  BY <1>2, <1>5, <1>6, <1>7 DEF Executed, Receipts, Artifact
<1>10. QED
  BY <1>3, <1>9

\* The second count reconciles, or is refused; over a layer nobody edited it is not
\* refused.
LEMMA FinishKeeps == ASSUME ParcelInv, Finish PROVE ParcelInv'
<1> DEFINE count == Cardinality(live)
<1>1. /\ run.at = "count" /\ RehearsalTypeOK /\ started' \in 0 .. work.rehearsals
      /\ done \subseteq Executions /\ UNCHANGED <<probeVars, started, proof>>
      /\ Retained(Len(run.pages) + 1, "ending_count", <<count>>)
      /\ disk \subseteq disk'
  BY DEF Finish, ParcelInv, RehearsalTypeOK, Retained
<1>2. CASE Reconciled(count)
  <2>1. Ends /\ done' = done \cup {Execution} /\ UNCHANGED alarms
    BY <1>2 DEF Finish
  <2>2. PICK e : e = Execution
    OBVIOUS
  <2>3. e \in Executions /\ Executed(e)'
    BY <1>1, <1>2, <2>2, FinishExecutes
  <2>4. ASSUME NEW d \in done PROVE Executed(d)'
    <3>1. Executed(d)
      BY DEF ParcelInv
    <3>2. QED
      BY <1>1, <3>1 DEF Executed
  <2>5. /\ \A d \in done' : Executed(d)'
        /\ done \subseteq done' /\ done' \subseteq Executions
    BY <1>1, <2>1, <2>2, <2>3, <2>4
  <2>6. run' \in Rehearsal /\ Underway'
    BY <2>1, NoRunTyped DEF Ends, Underway
  <2>7. QED
    BY <1>1, <2>1, <2>5, <2>6, RehearsalKeeps
<1>3. CASE ~Reconciled(count)
  <2>1. Refuse /\ UNCHANGED done
    BY <1>3 DEF Finish
  <2>2. ~(run.throughout = run.before /\ live = run.before)
    BY <1>1, <1>3, SteadyCountAgrees
  <2>3. Ends /\ alarms' = alarms \cup {"moved"}
    BY <2>1, <2>2 DEF Refuse
  <2>4. QED
    BY <1>1, <2>1, <2>3, EndsKeeps
<1>4. QED
  BY <1>2, <1>3

-----------------------------------------------------------------------------
\* The invariant holds initially.
LEMMA ParcelInitially == RehearsalInit => ParcelInv
<1>1. SUFFICES ASSUME RehearsalInit PROVE ParcelInv
  OBVIOUS
<1>2. /\ work \in Workloads /\ live \in work.layers /\ edits = 0
      /\ ready \in [Snapshots -> work.advertised]
      /\ probe = [p \in Probes |-> Nil]
      /\ rows = [observations |-> {}, manifests |-> {}, assessments |-> {}]
      /\ run = NoRun /\ started = 0
      /\ disk = {} /\ done = {} /\ proof = Nil /\ alarms = {}
  BY <1>1 DEF RehearsalInit, ProbeInit
<1>3. RehearsalTypeOK
  <2>1. /\ work.layers \subseteq SUBSET work.ids /\ work.advertised \subseteq BOOLEAN
        /\ work.edits \in Nat /\ work.rehearsals \in Nat
    BY <1>2, ProbeConstants
  <2>2. live \subseteq work.ids /\ ready \in [Snapshots -> BOOLEAN]
        /\ edits \in 0 .. work.edits /\ started \in 0 .. work.rehearsals
    BY <1>2, <2>1
  <2>3. /\ probe \in [Probes -> Probe \cup {Nil}] /\ \A p \in Probes : probe[p] = Nil
    BY <1>2
  <2>4. rows \in [observations : SUBSET (Probes \X (1 .. Len(Kinds))),
                  manifests : SUBSET done, assessments : SUBSET Assessments]
    BY <1>2
  <2>5. run \in Rehearsal /\ done \subseteq Executions /\ proof \in done \cup {Nil}
        /\ alarms \subseteq {"steady", "moved"}
    BY <1>2, NoRunTyped
  <2>6. QED
    BY <1>2, <2>2, <2>3, <2>4, <2>5 DEF RehearsalTypeOK
<1>4. (\A p \in Probes : Steadily(p)) /\ Stored
  BY <1>2 DEF Steadily, Stored
<1>5. Underway
  BY <1>2, NoRunTyped DEF Underway
<1>6. QED
  BY <1>2, <1>3, <1>4, <1>5 DEF ParcelInv

\* Every step keeps the invariant.
LEMMA ParcelStep == ParcelInv /\ [RehearsalNext]_rehearsalVars => ParcelInv'
<1>1. SUFFICES ASSUME ParcelInv, [RehearsalNext]_rehearsalVars PROVE ParcelInv'
  OBVIOUS
<1>2. CASE ProbeNext /\ UNCHANGED <<run, started, disk, done, proof, alarms>>
  <2>1. CASE \E p \in Probes, s \in Snapshots, size \in work.sizes : StartProbe(p, s, size)
    BY <1>1, <1>2, <2>1, StartProbeKeeps
  <2>2. CASE \E p \in Probes : Ask(p)
    BY <1>1, <1>2, <2>2, AskKeeps
  <2>3. CASE \E p \in Probes : PersistBundle(p)
    BY <1>1, <1>2, <2>3, PersistBundleKeeps
  <2>4. CASE \E p \in Probes, k \in 1 .. Len(Kinds) : StoreObservation(p, k)
    BY <1>1, <1>2, <2>4, StoreObservationKeeps
  <2>5. CASE \E s \in Snapshots, size \in work.sizes,
                manifest \in rows.manifests \cup {Nil} : StoreAssessment(s, size, manifest)
    BY <1>1, <1>2, <2>5, StoreAssessmentKeeps
  <2>6. QED
    BY <1>2, <2>1, <2>2, <2>3, <2>4, <2>5, Zenon DEF ProbeNext
<1>3. CASE \E s \in Snapshots : StartRehearsal(s)
  BY <1>1, <1>3, StartRehearsalKeeps
<1>4. CASE \E k \in FailureKinds \cup {"injected"} : FailAttempt(k)
  BY <1>1, <1>4, FailAttemptKeeps
<1>5. CASE ReadPage
  BY <1>1, <1>5, ReadPageKeeps
<1>6. CASE Checkpoint
  BY <1>1, <1>6, CheckpointKeeps
<1>7. CASE Finish
  BY <1>1, <1>7, FinishKeeps
<1>8. CASE Break
  BY <1>1, <1>8, BreakKeeps
<1>9. CASE \E e \in done : SaveProof(e)
  BY <1>1, <1>9, SaveProofKeeps
<1>10. CASE \E e \in done : StoreManifest(e)
  BY <1>1, <1>10, StoreManifestKeeps
<1>11. CASE \E id \in work.ids : Edit(id)
  BY <1>1, <1>11, EditKeeps
<1>12. CASE UNCHANGED rehearsalVars
  <2>1. /\ UNCHANGED <<probeVars, run, started, disk, done, proof, alarms>>
        /\ UNCHANGED <<work, live, edits, ready, probe, rows>>
    BY <1>12 DEF rehearsalVars, probeVars
  <2>2. RehearsalTypeOK'
    BY <1>1, <2>1 DEF ParcelInv, RehearsalTypeOK, Assessments
  <2>3. /\ \A p \in Probes : Steadily(p)'
        /\ Stored'
        /\ \A a \in rows'.assessments : Assessed(a)'
    BY <1>1, <2>1, ProbesUntouched
  <2>4. (\A e \in done' : Executed(e)') /\ Underway' /\ "steady" \notin alarms'
    BY <1>1, <2>1, RehearsalUntouched
  <2>5. QED
    BY <2>2, <2>3, <2>4 DEF ParcelInv
<1>13. QED
  BY <1>1, <1>2, <1>3, <1>4, <1>5, <1>6, <1>7, <1>8, <1>9, <1>10, <1>11, <1>12, Zenon
     DEF RehearsalNext

\* The inductive invariant holds, whatever the layer's owner adds and deletes between
\* two requests of a probe (execute_arcgis_probe_plan) or of a rehearsal
\* (execute_arcgis_complete_rehearsal).
THEOREM RehearsalInductive == RehearsalSpec => []ParcelInv
<1>1. RehearsalInit => ParcelInv
  BY ParcelInitially
<1>2. ParcelInv /\ [RehearsalNext]_rehearsalVars => ParcelInv'
  BY ParcelStep
<1>3. QED
  BY <1>1, <1>2, PTL DEF RehearsalSpec

\* Every variable keeps its type: a rehearsal stays within the policy's attempts, and
\* proofs and executions are of rehearsals that were completed.
THEOREM RehearsalTypeCorrect == RehearsalSpec => []RehearsalTypeOK
<1>1. ParcelInv => RehearsalTypeOK
  BY DEF ParcelInv
<1>2. QED
  BY <1>1, RehearsalInductive, PTL

\* A layer nobody edits passes, for any records, page size and sample: the checks of the
\* probe's assessment (_page_sequence_is_valid) and of the rehearsal's pages
\* (_fetch_page_with_retry) refuse no truthful answer.
THEOREM SteadyLayersAlwaysPass == RehearsalSpec => []SteadyLayersPass
BY SteadyPasses, RehearsalInductive, PTL

\* A rehearsal that counts the same before and after, and reads as many records in order,
\* lists none twice, and misses no more of those there all the time than were deleted
\* while it read (require_rehearsal_consistency).
THEOREM ListsMissOnlyDeleted == RehearsalSpec => []ListMissesOnlyDeleted
BY CompleteList, RehearsalInductive, PTL

\* Two assessments of one plan from all four answers agree on whether it is blocked,
\* whichever probes they were of and whenever they were stored, beside whatever plans of
\* other sample sizes of the same snapshot
\* (store_arcgis_acquisition_assessment, store_arcgis_bounded_proof_bundle).
THEOREM VerdictStaysFinal == RehearsalSpec => []VerdictIsFinal
BY FinalVerdict, RehearsalInductive, PTL

\* A layer called verified has four stored answers of one snapshot that agree with a
\* completed rehearsal: no later probe, store or edit takes that from under the status
\* (_require_manifest_scope, _status_for_gaps).
THEOREM VerifiedStaysReconciled == RehearsalSpec => []VerifiedIsReconciled
BY ReconciledVerdict, RehearsalInductive, PTL
=============================================================================
