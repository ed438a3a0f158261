------------------------------ MODULE LeadDesk ------------------------------
(***************************************************************************)
(* The Command Center's lead desk: what the operator's POST requests write *)
(* into workflow.sqlite3 about a lead (command_center_state.py, the        *)
(* feedback of lead_workflow.py, lead_watchlist.py, calibration.py), while *)
(* collections publish new rows of the source behind their back.           *)
(*                                                                         *)
(* The server's `maintenance` lock lets one POST run at a time (do_POST,   *)
(* live_command_center.py): `post' is that request.  A request first reads *)
(* the lead through current(), a worker's capture may then replace the     *)
(* row, and the handler's transactions follow one by one.  Several         *)
(* handlers use more than one transaction, and the server can die, or      *)
(* SQLite fail, before any of them (Stops).                                *)
(*                                                                         *)
(* A row of the source is named by its version (row_sha256); its score and *)
(* project type are functions of it.  Texts, dates and the `hidden' flag,  *)
(* which no handler reads, are left out.                                   *)
(***************************************************************************)
EXTENDS Integers, Sequences, FiniteSets

CONSTANTS
    Leads,       \* source keys
    Versions,    \* contents a lead's row may have
    Contacts,    \* contact records, [email, phone], each channel or None
    Weights,     \* scoring weights
    Workloads,   \* the sets of operations an operator uses in one behaviour
    MaxLog,      \* bound: status events per lead, and weight changes
    None

ASSUME DeskConstants ==
    /\ None \notin Versions
    /\ None \notin Weights
    /\ MaxLog \in Nat

\* Rows of the tables of watches, facts and site reviews, and the decisions that the
\* operator makes about a site.
WatchRow == [digest : Versions, present : BOOLEAN]
FactRow == [verified : {"unset", "yes", "no"}, named : {"yes", "no"}]
ReviewRow == [yes : BOOLEAN, row : Versions, named : {"yes", "no"}]
Decision ==
    [yes : BOOLEAN, by : {"fact"}] \cup
    [yes : BOOLEAN, by : {"review"}, row : Versions, named : {"yes", "no"}]

\* None is no row.
ASSUME NoneIsNoRow == None \notin WatchRow /\ None \notin ReviewRow /\ None \notin Decision

VARIABLES
    ops,        \* the operations of this behaviour, one of Workloads
    post,       \* the request that holds maintenance, or NoPost
    active,     \* lead -> the version in active.json, None when it left the filter
    feedback,   \* lead -> row of table feedback: status, version it was scored at
    log,        \* lead -> its feedback_events, oldest first
    queue,      \* the leads in outreach_queue
    dnc,        \* the leads whose do-not-contact control is set
    journal,    \* lead -> the kinds of its cc_events
    watch,      \* lead -> its acknowledged digest and presence, or None
    facts,      \* lead -> the operator's site verification and whether he renamed it
    review,     \* lead -> its site review, or None
    decided,    \* lead -> the operator's last decision about its site (history)
    contacts,   \* lead -> its contact records
    weights,    \* the weights in cc_settings
    changes     \* cc_weight_changes, oldest first

deskVars == <<active, feedback, log, queue, dnc, journal, watch, facts, review,
              decided, contacts, weights, changes>>

\* The statuses the handlers tell apart; "Reviewing" stands for the others the
\* operator may choose. A space of the source's names is written _.
Statuses == {"New", "Reviewing", "Outreach_queued", "Quoted", "Won", "Lost", "Not_a_fit"}
Chosen == {"Reviewing", "Outreach_queued", "Not_a_fit"}
NoPost == [op |-> "none"]
Unset == [verified |-> "unset", named |-> "no"]

DeskInit ==
    /\ ops \in Workloads
    /\ post = NoPost
    /\ active \in [Leads -> Versions]
    /\ feedback = [k \in Leads |-> [status |-> "New", scored |-> None]]
    /\ log = [k \in Leads |-> <<>>]
    /\ queue = {}
    /\ dnc = {}
    /\ journal = [k \in Leads |-> {}]
    /\ watch = [k \in Leads |-> None]
    /\ facts = [k \in Leads |-> Unset]
    /\ review = [k \in Leads |-> None]
    /\ decided = [k \in Leads |-> None]
    /\ contacts = [k \in Leads |-> {}]
    /\ weights \in Weights
    /\ changes = <<>>

-----------------------------------------------------------------------------
(* A request: it takes maintenance and reads the lead, then runs its steps. *)

\* do_POST, and the lead that local_post looks up in current().  Only a watch
\* may name a lead the source no longer lists.  The row read, and whether the
\* projection showed it do-not-contact or not a fit, stay what they were.
Request(op, k, arg, first) ==
    /\ post = NoPost
    /\ op \in ops
    /\ op # "watch" => active[k] # None
    /\ post' = [op |-> op, lead |-> k, arg |-> arg, step |-> first, row |-> active[k],
                barred |-> k \in dnc \/ feedback[k].status = "Not_a_fit"]
    /\ UNCHANGED <<ops, deskVars>>

At(op, step) == post.op = op /\ post.step = step
Then(step) == post' = [post EXCEPT !.step = step]
Answer == post' = NoPost

\* An SQLite error, answered 400, or the death of the server: what the request
\* has committed stays, the rest never happens.
Stops ==
    /\ post # NoPost
    /\ post' = NoPost
    /\ UNCHANGED <<ops, deskVars>>

\* The last transaction of most handlers: state.event.
Event(kind) ==
    /\ journal' = [journal EXCEPT ![post.lead] = @ \cup {kind}]
    /\ Answer
    /\ UNCHANGED <<ops, active, feedback, log, queue, dnc, watch, facts, review,
                   decided, contacts, weights, changes>>

\* A collection of the worker, the daily run or a manual run replaces active.json
\* (smarts_active.collect_active); it waits for no request.
Publish(k, v) ==
    /\ "publish" \in ops
    /\ active[k] # v
    /\ active' = [active EXCEPT ![k] = v]
    /\ UNCHANGED <<ops, post, feedback, log, queue, dnc, journal, watch, facts, review,
                   decided, contacts, weights, changes>>

-----------------------------------------------------------------------------
(* Feedback and the outreach queue.                                        *)

\* The row save_feedback writes: the score stays that of the status' first save.
RescoresSlip(old, status, row) == [status |-> status, scored |-> row]
Scored(old, status, row) ==
    [status |-> status,
     scored |-> IF old.scored # None /\ old.status = status THEN old.scored ELSE row]

\* save_feedback's transaction: the row and its event.
SaveFeedback(k, status, row) ==
    /\ feedback' = [feedback EXCEPT ![k] = Scored(@, status, row)]
    /\ log' = [log EXCEPT ![k] = Append(@, [status |-> status, row |-> row])]

\* POST /api/feedback/<lead>.
Feedback ==
    /\ At("feedback", "commit")
    /\ SaveFeedback(post.lead, post.arg, post.row)
    /\ Answer
    /\ UNCHANGED <<ops, active, queue, dnc, journal, watch, facts, review, decided,
                   contacts, weights, changes>>

\* queue's first transaction: refused for a barred lead, fresh when it inserts.
QueueInsert ==
    /\ At("queue", "commit")
    /\ ~post.barred
    /\ post.lead \notin dnc
    /\ queue' = queue \cup {post.lead}
    /\ IF post.lead \in queue
       THEN Answer
       ELSE Then("status")
    /\ UNCHANGED <<ops, active, feedback, log, dnc, journal, watch, facts, review, decided,
                   contacts, weights, changes>>

QueueRefused ==
    /\ At("queue", "commit")
    /\ post.barred \/ post.lead \in dnc
    /\ Answer
    /\ UNCHANGED <<ops, deskVars>>

\* queue's second: save_feedback with the status "Outreach queued".
QueueStatus ==
    /\ At("queue", "status")
    /\ SaveFeedback(post.lead, "Outreach_queued", post.row)
    /\ Then("event")
    /\ UNCHANGED <<ops, active, queue, dnc, journal, watch, facts, review, decided,
                   contacts, weights, changes>>

\* queue's third, and its answer.
QueueEvent ==
    /\ At("queue", "event")
    /\ journal' = [journal EXCEPT ![post.lead] = @ \cup {"outreach_queued"}]
    /\ Answer
    /\ UNCHANGED <<ops, active, feedback, log, queue, dnc, watch, facts, review, decided,
                   contacts, weights, changes>>

\* control: the flag, and a lead that must not be contacted leaves the queue.
Control ==
    /\ At("control", "commit")
    /\ dnc' = IF post.arg THEN dnc \cup {post.lead} ELSE dnc \ {post.lead}
    /\ queue' = IF post.arg THEN queue \ {post.lead} ELSE queue
    /\ Then("event")
    /\ UNCHANGED <<ops, active, feedback, log, journal, watch, facts, review, decided,
                   contacts, weights, changes>>

-----------------------------------------------------------------------------
(* Watches, facts, site reviews, contacts.                                 *)

\* watchlist: the lead differs from what the operator last acknowledged.
Flagged(k) ==
    /\ watch[k] # None
    /\ \/ (active[k] # None) # watch[k].present
       \/ active[k] # None /\ active[k] # watch[k].digest

\* update_watch's row: a new watch acknowledges the row read, an edit keeps what
\* was acknowledged, "acknowledge" takes the row read, or its absence.
EditDismissesSlip(k, action, row) ==
    [digest |-> IF row # None THEN row ELSE watch[k].digest, present |-> row # None]
Watched(k, action, row) ==
    IF watch[k] = None THEN [digest |-> row, present |-> TRUE]
    ELSE IF action = "save" THEN watch[k]
    ELSE [digest |-> IF row # None THEN row ELSE watch[k].digest, present |-> row # None]

Watch ==
    /\ At("watch", "commit")
    /\ \/ /\ post.arg = "remove"
          /\ watch' = [watch EXCEPT ![post.lead] = None]
       \/ /\ post.arg # "remove"
          /\ post.row # None \/ watch[post.lead] # None
          /\ watch' = [watch EXCEPT ![post.lead] = Watched(post.lead, post.arg, post.row)]
       \/ /\ post.arg # "remove"
          /\ post.row = None /\ watch[post.lead] = None
          /\ watch' = watch
    /\ Answer
    /\ UNCHANGED <<ops, active, feedback, log, queue, dnc, journal, facts, review, decided,
                   contacts, weights, changes>>

\* attach: a review counts while the row and the shown site are those reviewed;
\* without one, what the operator entered counts.
ShownVerified(k) ==
    IF review[k] # None
    THEN review[k].yes /\ review[k].row = active[k] /\ review[k].named = facts[k].named
    ELSE facts[k].verified = "yes"

\* save_facts: a verification of his own withdraws the review; a name he enters
\* or clears changes what the site is shown as.
KeepsReviewSlip ==
    /\ At("facts", "commit")
    /\ facts' = [facts EXCEPT ![post.lead] = [@ EXCEPT ![post.arg.field] = post.arg.value]]
    /\ review' = review
    /\ decided' = IF post.arg.field = "verified"
                  THEN [decided EXCEPT ![post.lead] =
                          [yes |-> post.arg.value = "yes", by |-> "fact"]]
                  ELSE decided
    /\ Then("event")
    /\ UNCHANGED <<ops, active, feedback, log, queue, dnc, journal, watch, contacts,
                   weights, changes>>
SaveFacts ==
    /\ At("facts", "commit")
    /\ facts' = [facts EXCEPT ![post.lead] = [@ EXCEPT ![post.arg.field] = post.arg.value]]
    /\ review' = IF post.arg.field = "verified" THEN [review EXCEPT ![post.lead] = None]
                 ELSE review
    /\ decided' = IF post.arg.field = "verified"
                  THEN [decided EXCEPT ![post.lead] =
                          [yes |-> post.arg.value = "yes", by |-> "fact"]]
                  ELSE decided
    /\ Then("event")
    /\ UNCHANGED <<ops, active, feedback, log, queue, dnc, journal, watch, contacts,
                   weights, changes>>

\* review_site: the verdict, bound to the row read and to the site as it was shown.
ReviewSite ==
    LET verdict == [yes |-> post.arg, row |-> post.row, named |-> facts[post.lead].named]
    IN  /\ At("review", "commit")
        /\ review' = [review EXCEPT ![post.lead] = verdict]
        /\ decided' = [decided EXCEPT ![post.lead] =
                         [yes |-> post.arg, by |-> "review", row |-> post.row,
                          named |-> facts[post.lead].named]]
        /\ Then("event")
        /\ UNCHANGED <<ops, active, feedback, log, queue, dnc, journal, watch, facts,
                       contacts, weights, changes>>

\* save_contact: the stored record is answered when a channel of it is known.
SameChannel(c, d) ==
    \/ c.email # None /\ c.email = d.email
    \/ c.phone # None /\ c.phone = d.phone

SaveContact ==
    /\ At("contact", "commit")
    /\ \/ /\ \E c \in contacts[post.lead] : SameChannel(c, post.arg)
          /\ Answer
          /\ UNCHANGED contacts
       \/ /\ ~\E c \in contacts[post.lead] : SameChannel(c, post.arg)
          /\ contacts' = [contacts EXCEPT ![post.lead] = @ \cup {post.arg}]
          /\ Then("event")
    /\ UNCHANGED <<ops, active, feedback, log, queue, dnc, journal, watch, facts, review,
                   decided, weights, changes>>

\* The last step of control, facts, review and contact, and all of an activity note.
Journal == \E kind \in {"control", "facts", "review", "contact", "activity"} :
              At(kind, "event") /\ Event(kind)

-----------------------------------------------------------------------------
(* Scoring weights.                                                        *)

\* save_settings: a change of weights is recorded with what it replaces.
\* calibration.apply compares the digest its reviewer saw first; a plain save
\* of the settings (arg.seen = None) does not.
WeightsCurrent ==
    /\ At("weights", "commit")
    /\ post.arg.seen \in {None, weights}

SaveWeights ==
    /\ WeightsCurrent
    /\ weights' = post.arg.new
    /\ changes' = IF post.arg.new = weights THEN changes
                  ELSE Append(changes, [before |-> weights, after |-> post.arg.new,
                                        seen |-> post.arg.seen])
    /\ Answer
    /\ UNCHANGED <<ops, active, feedback, log, queue, dnc, journal, watch, facts, review,
                   decided, contacts>>

WeightsRefused ==
    /\ At("weights", "commit")
    /\ ~WeightsCurrent
    /\ Answer
    /\ UNCHANGED <<ops, deskVars>>

-----------------------------------------------------------------------------
FactEdits == {[field |-> "verified", value |-> "yes"], [field |-> "verified", value |-> "no"],
              [field |-> "named", value |-> "yes"], [field |-> "named", value |-> "no"]}

DeskRequest == \E k \in Leads :
    \/ Len(log[k]) < MaxLog /\ \E s \in Chosen : Request("feedback", k, s, "commit")
    \/ Len(log[k]) < MaxLog /\ Request("queue", k, None, "commit")
    \/ \E on \in BOOLEAN : Request("control", k, on, "commit")
    \/ \E action \in {"save", "acknowledge", "remove"} : Request("watch", k, action, "commit")
    \/ \E edit \in FactEdits : Request("facts", k, edit, "commit")
    \/ \E yes \in BOOLEAN : Request("review", k, yes, "commit")
    \/ \E c \in Contacts : Request("contact", k, c, "commit")
    \/ Request("activity", k, None, "event")
    \/ /\ Len(changes) < MaxLog
       /\ \E new \in Weights, seen \in Weights \cup {None} :
              Request("weights", k, [new |-> new, seen |-> seen], "commit")

DeskNext ==
    \/ DeskRequest
    \/ Feedback \/ QueueInsert \/ QueueRefused \/ QueueStatus \/ QueueEvent \/ Control
    \/ Watch \/ SaveFacts \/ ReviewSite \/ SaveContact \/ Journal
    \/ SaveWeights \/ WeightsRefused
    \/ Stops
    \/ \E k \in Leads, v \in Versions \cup {None} : Publish(k, v)

-----------------------------------------------------------------------------
\* What a request may ask for, and the transactions it consists of.
Operations == {"feedback", "queue", "control", "watch", "facts", "review", "contact",
               "activity", "weights", "bid"}
Asks(op, arg) ==
    /\ op = "feedback" => arg \in Chosen
    /\ op \in {"control", "review"} => arg \in BOOLEAN
    /\ op = "watch" => arg \in {"save", "acknowledge", "remove"}
    /\ op = "facts" => arg \in FactEdits
    /\ op = "contact" => arg \in Contacts
    /\ op = "weights" => arg.new \in Weights /\ arg.seen \in Weights \cup {None}

PostTypeOK ==
    post # NoPost =>
        /\ DOMAIN post = {"op", "lead", "arg", "step", "row", "barred"}
        /\ post.op \in Operations /\ post.lead \in Leads
        /\ post.step \in {"commit", "status", "event"}
        /\ post.row \in Versions \cup {None}
        /\ post.op # "watch" => post.row # None
        /\ Asks(post.op, post.arg)

DeskTypeOK ==
    /\ ops \in Workloads
    /\ PostTypeOK
    /\ active \in [Leads -> Versions \cup {None}]
    /\ feedback \in [Leads -> [status : Statuses, scored : Versions \cup {None}]]
    /\ log \in [Leads -> Seq([status : Statuses \ {"New"}, row : Versions])]
    /\ queue \subseteq Leads /\ dnc \subseteq Leads
    /\ journal \in [Leads -> SUBSET {"outreach_queued", "control", "facts", "review",
                                     "contact", "activity"}]
    /\ watch \in [Leads -> WatchRow \cup {None}]
    /\ facts \in [Leads -> FactRow]
    /\ review \in [Leads -> ReviewRow \cup {None}]
    /\ decided \in [Leads -> Decision \cup {None}]
    /\ contacts \in [Leads -> SUBSET Contacts]
    /\ weights \in Weights
    /\ changes \in Seq([before : Weights, after : Weights, seen : Weights \cup {None}])

\* The last status, the version at which a lead entered it, the outreach event and the
\* queue tell one story: the score kept for the outcome report (calibration.report) is
\* that of the first of the latest run of equal statuses, whichever of save_feedback,
\* queue and save_bid wrote them; an outreach event was preceded by its status event;
\* and a lead under Do-Not-Contact is not queued.
FirstOfRun(k) ==
    CHOOSE i \in DOMAIN log[k] :
        /\ \A j \in i .. Len(log[k]) : log[k][j].status = log[k][i].status
        /\ i = 1 \/ log[k][i - 1].status # log[k][i].status

FeedbackMatchesLog == \A k \in Leads :
    /\ IF log[k] = <<>> THEN feedback[k].status = "New"
       ELSE feedback[k] = [status |-> log[k][Len(log[k])].status,
                           scored |-> log[k][FirstOfRun(k)].row]
    /\ "outreach_queued" \in journal[k] =>
           \E i \in DOMAIN log[k] : log[k][i].status = "Outreach_queued"
    /\ k \in dnc => k \notin queue

\* A site is shown verified exactly as the operator last decided, and a decision made in
\* a review counts only for the row and the site reviewed (attach, review_site,
\* save_facts), whatever was decided before and whatever collections published since.
NewestDecisionShows == \A k \in Leads :
    /\ decided[k] = None => ~ShownVerified(k)
    /\ decided[k] # None /\ decided[k].by = "fact" => ShownVerified(k) = decided[k].yes
    /\ decided[k] # None /\ decided[k].by = "review" =>
          (ShownVerified(k) <=> /\ decided[k].yes
                                /\ decided[k].row = active[k]
                                /\ decided[k].named = facts[k].named)

\* "Editing a reminder must not silently dismiss a source-change alert"
\* (lead_watchlist.py): an alert ends by acknowledgement, by removal of the watch, or
\* because the source went back to what was acknowledged.
AlertEnds(k) ==
    (Flagged(k) /\ ~Flagged(k)') =>
        \/ At("watch", "commit") /\ post.lead = k /\ post.arg \in {"acknowledge", "remove"}
        \/ watch'[k] = watch[k] /\ active'[k] # active[k]
AlertsEndByReview == [][\A k \in Leads : AlertEnds(k)]_<<watch, active>>

\* The change log explains the weights: each change replaces what the one before left,
\* the last is what scoring uses, and one made through calibration.apply replaced
\* exactly what its reviewer had seen.
WeightsFollowReviews ==
    /\ \A i \in DOMAIN changes :
          /\ changes[i].seen \in {None, changes[i].before}
          /\ i > 1 => changes[i].before = changes[i - 1].after
    /\ changes # <<>> => changes[Len(changes)].after = weights

\* What the operator last decided or had reviewed is what the desk shows and what
\* scoring uses: his verification of a site (review_site, save_facts, attach) and the
\* weights a reviewed calibration replaced (calibration.apply, save_settings).
ReviewsDecide == NewestDecisionShows /\ WeightsFollowReviews
=============================================================================
