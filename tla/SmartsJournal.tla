--------------------------- MODULE SmartsJournal ----------------------------
(***************************************************************************)
(* The SMARTS evidence journal (smarts_evidence_ledger.py): observations    *)
(* of source rows, the semantic versions they make, and the aliases that    *)
(* bind a source's identifiers to one source key.                           *)
(*                                                                          *)
(* The journal is one SQLite file, opened with BEGIN IMMEDIATE: a page is   *)
(* recorded in one transaction, so recording is an operator from a journal  *)
(* to the next one.  A row stands for its digest, an identifier (APP_ID or  *)
(* WDID, qualified by the county) for an alias.                             *)
(***************************************************************************)
EXTENDS Naturals, Sequences, FiniteSets, SequencesExt

CONSTANTS
  App,      \* APP_IDs
  Wdid,     \* WDIDs
  Content,  \* everything else in a row
  None

ASSUME JournalConstants == None \notin App \cup Wdid /\ App \cap Wdid = {}

Row == [app: App \cup {None}, wdid: Wdid \cup {None}, content: Content]

Aliases(row) == {row.app, row.wdid} \ {None}

\* The WDID names the source; failing that, the APP_ID.
SourceKey(row) == IF row.wdid # None THEN row.wdid ELSE row.app

\* An observation's id is its position; so is a version's number.
Journal == [observations: Seq([key: App \cup Wdid, row: Row]),
            versions: [App \cup Wdid -> Seq([row: Row, observation: Nat])],
            aliases: [App \cup Wdid -> App \cup Wdid \cup {None}]]

\* None is no journal.
ASSUME NoneIsNoJournal == None \notin Journal

EmptyJournal == [observations |-> <<>>,
                 versions |-> [k \in App \cup Wdid |-> <<>>],
                 aliases |-> [a \in App \cup Wdid |-> None]]

-----------------------------------------------------------------------------
\* The sources a row's identifiers are bound to.
Mapped(j, row) == {j.aliases[a] : a \in Aliases(row)} \ {None}

\* Identifiers of two sources, or a new one on a known source, are for a human.
Conflict(j, row) ==
  /\ Mapped(j, row) # {}
  /\ Cardinality(Mapped(j, row)) > 1 \/ \E a \in Aliases(row) : j.aliases[a] = None

Canonical(j, row) ==
  IF Mapped(j, row) = {} THEN SourceKey(row) ELSE CHOOSE k \in Mapped(j, row) : TRUE

\* Slip: only content that never was seen before makes a version.
UnchangedEver(j, key, row) ==
  \E i \in DOMAIN j.versions[key] : j.versions[key][i].row = row

Unchanged(j, key, row) ==
  j.versions[key] # <<>> /\ Last(j.versions[key]).row = row

\* Slip: the source is looked up by its key alone.
RecordRowByKey(j, row) ==
  LET key == SourceKey(row)
      id  == Len(j.observations) + 1
  IN [observations |-> Append(j.observations, [key |-> key, row |-> row]),
      versions |-> [j.versions EXCEPT ![key] =
        IF Unchanged(j, key, row) THEN @
        ELSE Append(@, [row |-> row, observation |-> id])],
      aliases |-> [a \in DOMAIN j.aliases |->
        IF a \in Aliases(row) /\ j.aliases[a] = None THEN key ELSE j.aliases[a]]]

\* record_smarts_observation, in a transaction of its caller: the observation,
\* the aliases of a new source, and a version if the row differs from the last.
RecordRow(j, row) ==
  LET key == Canonical(j, row)
      id  == Len(j.observations) + 1
  IN [observations |-> Append(j.observations, [key |-> key, row |-> row]),
      versions |-> [j.versions EXCEPT ![key] =
        IF Unchanged(j, key, row) THEN @
        ELSE Append(@, [row |-> row, observation |-> id])],
      aliases |-> [a \in DOMAIN j.aliases |->
        IF a \in Aliases(row) THEN key ELSE j.aliases[a]]]

\* record_smarts_page: all the rows that have an identity, or (None) nothing.
Entered(j, row) ==
  IF j = None \/ Aliases(row) = {} THEN j
  ELSE IF Conflict(j, row) THEN None ELSE RecordRow(j, row)

Anonymous(page) == page # <<>> /\ \A i \in DOMAIN page : Aliases(page[i]) = {}

RecordPage(j, page) ==
  LET after[n \in 0..Len(page)] ==
        IF n = 0 THEN j ELSE Entered(after[n - 1], page[n])
  IN IF Anonymous(page) THEN None ELSE after[Len(page)]

-----------------------------------------------------------------------------
\* Observation h is the newest of a source before i.
Precedes(j, key, h, i) ==
  j.observations[h].key = key /\ \A g \in h + 1..i - 1 : j.observations[g].key # key

\* The ids of a source's observations that differ from the one before.
Transitions(j, key) ==
  {i \in DOMAIN j.observations :
     /\ j.observations[i].key = key
     /\ \A h \in 1..i - 1 :
          Precedes(j, key, h, i) => j.observations[h].row # j.observations[i].row}

\* verify_smarts_journal: a source's versions are the transitions of its
\* observations, in order and each with its row.
VerifiesChain(j, key) ==
  LET chain == j.versions[key] IN
  /\ {chain[n].observation : n \in DOMAIN chain} = Transitions(j, key)
  /\ \A n \in DOMAIN chain :
       /\ chain[n].row = j.observations[chain[n].observation].row
       /\ n > 1 => chain[n - 1].observation < chain[n].observation

\* And every alias leads to a source that was observed.
Verifies(j) ==
  /\ \A key \in DOMAIN j.versions : VerifiesChain(j, key)
  /\ \A a \in DOMAIN j.aliases :
       j.aliases[a] # None => j.versions[j.aliases[a]] # <<>>
=============================================================================
