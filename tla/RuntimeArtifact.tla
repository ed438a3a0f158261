--------------------------- MODULE RuntimeArtifact ---------------------------
(***************************************************************************)
(* storage/runtime_artifacts.py: files published under one directory by    *)
(* processes that may die, on a machine that may lose power.  A publication *)
(* stages its bytes in a private directory, syncs them, then links (or, if  *)
(* asked, renames) them to the final name and syncs the directory.  Who     *)
(* finds the name taken reads it back through a synced handle and compares. *)
(* The file system is POSIX's: a directory entry survives a power loss for  *)
(* certain only once its directory was synced, bytes once the file was.     *)
(***************************************************************************)
EXTENDS Naturals

CONSTANTS
  Publishers,    \* processes
  CreateOnly,    \* names published without replace_existing
  Replaceable,   \* names published with it
  Contents,
  MaxFiles,      \* bound: final names entered, in one behaviour
  Nothing, Torn  \* Torn: what is left of bytes that were never synced

ASSUME PublicationAssumption ==
  /\ Nothing \notin Contents /\ Torn \notin Contents
  /\ CreateOnly \cap Replaceable = {}
  /\ MaxFiles \in Nat

Names == CreateOnly \cup Replaceable

VARIABLES
  dir,      \* the directory: "absent", "made" (its own entry unsynced), "durable"
  entry,    \* name -> the file it denotes now, or Nothing
  kept,     \* name -> the file it denotes after a power loss at the worst
  job,      \* publisher -> its publication
  told,     \* publications reported successful, and whether the directory's
            \* own entry was durable by then: [name, content, number, anchored]
  files     \* final names entered so far

publicationVars == <<dir, entry, kept, job, told, files>>

File == [number : 1 .. MaxFiles, content : Contents \cup {Torn}, synced : BOOLEAN]
ASSUME NothingIsNoFile == Nothing \notin File

Stages == {"idle", "parent", "staging", "written", "synced", "entered",
           "exists", "reading"}
Idle == [at |-> "idle", name |-> Nothing, content |-> Nothing, file |-> Nothing]

PublicationInit ==
  /\ dir \in {"absent", "durable"}
  /\ entry = [n \in Names |-> Nothing] /\ kept = entry
  /\ job = [p \in Publishers |-> Idle]
  /\ told = {} /\ files = 0

Goto(p, stage) == job' = [job EXCEPT ![p].at = stage]

\* anchored_artifact_parent(create_parents): only who makes the directory goes
\* on to sync the entry it made.
Begin(p, n, c) ==
  /\ job[p].at = "idle"
  /\ job' = [job EXCEPT ![p] =
       [at |-> IF dir = "absent" THEN "parent" ELSE "staging",
        name |-> n, content |-> c, file |-> Nothing]]
  /\ dir' = IF dir = "absent" THEN "made" ELSE dir
  /\ UNCHANGED <<entry, kept, told, files>>

SyncParent(p) ==
  /\ job[p].at = "parent"
  /\ dir' = "durable" /\ Goto(p, "staging")
  /\ UNCHANGED <<entry, kept, told, files>>

Write(p) ==
  /\ job[p].at = "staging" /\ Goto(p, "written")
  /\ UNCHANGED <<dir, entry, kept, told, files>>

SyncContent(p) ==
  /\ job[p].at = "written" /\ Goto(p, "synced")
  /\ UNCHANGED <<dir, entry, kept, told, files>>

Taken(n) == n \in CreateOnly /\ entry[n] # Nothing

\* Entered without waiting for its bytes.
StagedSlip(p) == [number |-> files + 1, content |-> job[p].content, synced |-> FALSE]

\* What the staged file is when its name is entered.
Staged(p) == [number |-> files + 1, content |-> job[p].content, synced |-> TRUE]

\* os.link to a free name, or os.replace.
Enter(p) ==
  LET n == job[p].name IN
  /\ job[p].at = "synced" /\ ~Taken(n) /\ files < MaxFiles
  /\ files' = files + 1
  /\ entry' = [entry EXCEPT ![n] = Staged(p)]
  /\ job' = [job EXCEPT ![p] = [@ EXCEPT !.at = "entered", !.file = Staged(p)]]
  /\ UNCHANGED <<dir, kept, told>>

\* FileExistsError: the caller turns to the file that is there.
Collide(p) ==
  /\ job[p].at = "synced" /\ Taken(job[p].name)
  /\ Goto(p, "exists")
  /\ UNCHANGED <<dir, entry, kept, told, files>>

Reopen(p) ==
  /\ job[p].at = "exists"
  /\ job' = [job EXCEPT ![p] = [@ EXCEPT !.at = "reading", !.file = entry[job[p].name]]]
  /\ UNCHANGED <<dir, entry, kept, told, files>>

\* _require_same_entry: the name still denotes the file in hand.
SameEntry(p) == entry[job[p].name] = job[p].file

Tell(p) == told' = told \cup
  {[name |-> job[p].name, content |-> job[p].content, number |-> job[p].file.number,
    anchored |-> dir = "durable"]}

SyncDirectory == kept' = entry

\* The published name is checked, the directory synced, success returned.
Settle(p) ==
  /\ job[p].at = "entered" /\ SameEntry(p)
  /\ SyncDirectory /\ Tell(p)
  /\ job' = [job EXCEPT ![p] = Idle]
  /\ UNCHANGED <<dir, entry, files>>

\* A reload that trusts the file it finds.
ConfirmSlip(p) ==
  /\ job[p].at = "reading" /\ SameEntry(p)
  /\ IF job[p].file.content = job[p].content THEN Tell(p) ELSE UNCHANGED told
  /\ job' = [job EXCEPT ![p] = Idle]
  /\ UNCHANGED <<dir, entry, kept, files>>

\* The caller's durable reload: file and directory synced, then compared.
Confirm(p) ==
  /\ job[p].at = "reading" /\ SameEntry(p)
  /\ SyncDirectory
  /\ IF job[p].file.content = job[p].content THEN Tell(p) ELSE UNCHANGED told
  /\ job' = [job EXCEPT ![p] = Idle]
  /\ UNCHANGED <<dir, entry, files>>

\* An error at any step, a failed check included, or the process dies: no
\* success is reported, and what was entered stays.
Abandon(p) ==
  /\ job[p].at # "idle"
  /\ job' = [job EXCEPT ![p] = Idle]
  /\ UNCHANGED <<dir, entry, kept, told, files>>

Survived(f) ==
  IF f = Nothing \/ f.synced THEN f ELSE [f EXCEPT !.content = Torn]

\* Entries not synced may or may not have reached the disk; with a directory
\* whose own entry did not, everything in it is gone.
PowerLoss ==
  /\ \/ /\ entry' \in {[n \in Names |-> Survived(IF n \in S THEN entry[n] ELSE kept[n])] :
                        S \in SUBSET Names}
        /\ UNCHANGED dir
     \/ /\ dir = "made" /\ dir' = "absent"
        /\ entry' = [n \in Names |-> Nothing]
  /\ kept' = entry'
  /\ job' = [p \in Publishers |-> Idle]
  /\ UNCHANGED <<told, files>>

PublicationNext ==
  \/ \E p \in Publishers :
       \/ \E n \in Names, c \in Contents : Begin(p, n, c)
       \/ SyncParent(p) \/ Write(p) \/ SyncContent(p) \/ Enter(p)
       \/ Collide(p) \/ Reopen(p) \/ Settle(p) \/ Confirm(p) \/ Abandon(p)
  \/ PowerLoss

PublicationSpec == PublicationInit /\ [][PublicationNext]_publicationVars
-----------------------------------------------------------------------------
PublicationTypeOK ==
  /\ dir \in {"absent", "made", "durable"}
  /\ entry \in [Names -> File \cup {Nothing}]
  /\ kept \in [Names -> File \cup {Nothing}]
  /\ job \in [Publishers -> [at : Stages, name : Names \cup {Nothing},
                             content : Contents \cup {Nothing},
                             file : File \cup {Nothing}]]
  /\ told \subseteq [name : Names, content : Contents, number : 1 .. MaxFiles,
                       anchored : BOOLEAN]
  /\ files \in 0 .. MaxFiles

\* A name never denotes part of a file: not while it is being written, not
\* after a process died, not after a power loss (publish_runtime_artifact:
\* "one complete artifact").
NamesAreWhole == \A n \in Names : entry[n] # Nothing => entry[n].content # Torn

\* A publication reported once its directory was durable is there from then
\* on, power losses included, with the bytes reported, be it the reporter's own
\* or one it found; only a later replacement supersedes it.  (Who finds the
\* directory there does not wait for its maker to sync it, so an earlier report
\* may go with the directory.)
ToldIsKept ==
  \A t \in told : t.anchored =>
    LET f == entry[t.name] IN
    /\ f # Nothing /\ f.number >= t.number
    /\ f.number = t.number => f.content = t.content
    /\ t.name \in CreateOnly => f.number = t.number

\* A create-only name never comes to denote another file; it may go back to
\* nothing, in a power loss, if nobody was told of it in a durable directory.
CreateOnlyIsFinal ==
  [][\A n \in CreateOnly :
       entry[n] # Nothing /\ entry'[n] # entry[n] =>
         entry'[n] = Nothing /\ ~ \E t \in told : t.name = n /\ t.anchored]_publicationVars
=============================================================================
