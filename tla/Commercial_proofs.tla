------------------------- MODULE Commercial_proofs -------------------------
(***************************************************************************)
(* Proofs about the Command Center's lead desk and commercial records      *)
(* (LeadDesk, Commercial): type correctness, the inductive invariant       *)
(* behind FeedbackMatchesLog, ReviewsDecide and RecordsAgree, and the      *)
(* action property AlertsEndByReview. The ledger's totals are sums over    *)
(* sets of entries; the first part proves what such a sum does when an     *)
(* entry is added or taken away.                                           *)
(***************************************************************************)
EXTENDS Commercial, FiniteSetTheorems, WellFoundedInduction, TLAPS

\* A set of numbers that is not empty has a least one: inductions over the size of
\* a set, or over a position, go by a least counterexample.
LEMMA LeastNumber ==
  ASSUME NEW T, T \subseteq Nat, T # {}
  PROVE  \E n \in T : \A m \in T : n <= m
<1> DEFINE R == OpToRel(<, Nat)
<1>1. IsWellFoundedOn(R, Nat)
  BY NatLessThanWellFounded
<1>2. \A m, n \in Nat : <<m, n>> \in R <=> m < n
  BY DEF OpToRel
<1> HIDE DEF R
<1>3. PICK n \in T : \A m \in T : ~ (<<m, n>> \in R)
  BY <1>1, WFMin
<1>4. ASSUME NEW m \in T PROVE n <= m
  <2>1. m \in Nat /\ n \in Nat
    OBVIOUS
  <2>2. ~ (m < n)
    BY <1>2, <1>3, <2>1
  <2>3. QED
    BY <2>1, <2>2
<1>5. QED
  BY <1>4

\* Among finite sets one has no proper subset.
LEMMA LeastSet ==
  ASSUME NEW B, B # {}, \A s \in B : IsFiniteSet(s)
  PROVE  \E s \in B : \A t \in B : t \subseteq s => t = s
<1> DEFINE T == {Cardinality(s) : s \in B}
<1>1. T \subseteq Nat /\ T # {}
  BY FS_CardinalityType
<1>2. PICK n \in T : \A m \in T : n <= m
  BY <1>1, LeastNumber
<1>3. PICK s \in B : n = Cardinality(s)
  OBVIOUS
<1>4. ASSUME NEW t \in B, t \subseteq s PROVE t = s
  <2>1. Cardinality(t) <= Cardinality(s) /\ (Cardinality(s) = Cardinality(t) => s = t)
    BY <1>4, FS_Subset
  <2>2. Cardinality(s) <= Cardinality(t)
    BY <1>2, <1>3
  <2>3. Cardinality(s) \in Nat /\ Cardinality(t) \in Nat
    BY FS_CardinalityType
  <2>4. QED
    BY <2>1, <2>2, <2>3
<1>5. QED
  BY <1>4

-----------------------------------------------------------------------------
\* The entry that MapThenSumSet takes first from a set, and a function that sums the
\* amounts of the entries of each subset in that order.
Pick(S) == CHOOSE x \in S : TRUE
IsSum(l, S, f) ==
    f = [s \in SUBSET S |-> IF s = {} THEN 0 ELSE l[Pick(s)].amount + f[s \ {Pick(s)}]]

\* The element a sum takes first is one of the set's.
LEMMA PickIn == ASSUME NEW S, S # {} PROVE Pick(S) \in S
BY DEF Pick

\* Two such functions agree where the amounts do, whatever sets they are defined over:
\* a least set on which they differ would differ by what Pick took from it.
LEMMA SumsAgree ==
  ASSUME NEW l, NEW S, NEW f, IsSum(l, S, f), NEW m, NEW T, NEW g, IsSum(m, T, g),
         NEW U, U \subseteq S, U \subseteq T, IsFiniteSet(U),
         \A i \in U : l[i].amount = m[i].amount
  PROVE  f[U] = g[U]
<1> DEFINE B == {s \in SUBSET U : f[s] # g[s]}
<1>1. SUFFICES ASSUME B # {} PROVE FALSE
  OBVIOUS
<1>2. \A s \in B : IsFiniteSet(s)
  BY FS_Subset
<1>3. PICK s \in B : \A t \in B : t \subseteq s => t = s
  <2> HIDE DEF B
  <2>1. QED
    BY <1>1, <1>2, LeastSet
<1>4. /\ f[s] = IF s = {} THEN 0 ELSE l[Pick(s)].amount + f[s \ {Pick(s)}]
      /\ g[s] = IF s = {} THEN 0 ELSE m[Pick(s)].amount + g[s \ {Pick(s)}]
  <2>1. s \in SUBSET S /\ s \in SUBSET T
    OBVIOUS
  <2>2. QED
    BY <2>1, Zenon DEF IsSum
<1>5. s # {} /\ f[s] # g[s]
  BY <1>4
<1>6. Pick(s) \in s
  BY <1>5, PickIn
<1>7. f[s \ {Pick(s)}] = g[s \ {Pick(s)}]
  BY <1>3, <1>6
<1>8. l[Pick(s)].amount = m[Pick(s)].amount
  BY <1>6
<1>9. QED
  BY <1>4, <1>5, <1>7, <1>8

\* There is such a function over every finite set.
LEMMA SumExists ==
  ASSUME NEW l, NEW S, IsFiniteSet(S)
  PROVE  \E f : IsSum(l, S, f)
<1> DEFINE B == {s \in SUBSET S : ~\E f : IsSum(l, s, f)}
<1>1. SUFFICES ASSUME B # {} PROVE FALSE
  OBVIOUS
<1>2. \A s \in B : IsFiniteSet(s)
  BY FS_Subset
<1>3. PICK s \in B : \A t \in B : t \subseteq s => t = s
  <2> HIDE DEF B
  <2>1. QED
    BY <1>1, <1>2, LeastSet
<1> DEFINE F(t) == CHOOSE f : IsSum(l, t, f)
           v(t) == IF t = {} THEN 0 ELSE l[Pick(t)].amount + F(t \ {Pick(t)})[t \ {Pick(t)}]
           f == [t \in SUBSET s |-> v(t)]
<1>4. \A t \in SUBSET s : t # s => IsSum(l, t, F(t))
  <2>1. \A t \in SUBSET s : t # s => \E g : IsSum(l, t, g)
    BY <1>3
  <2>2. QED
    BY <2>1, Zenon
<1>5. \A t \in SUBSET s : IsFiniteSet(t)
  BY <1>2, FS_Subset
<1> HIDE DEF F
<1>6. \A t \in SUBSET s : t # s => F(t)[t] = v(t)
  <2> SUFFICES ASSUME NEW t \in SUBSET s, t # s PROVE F(t)[t] = v(t)
    OBVIOUS
  <2> DEFINE u == t \ {Pick(t)}
  <2>1. F(t)[t] = IF t = {} THEN 0 ELSE l[Pick(t)].amount + F(t)[u]
    <3>1. IsSum(l, t, F(t))
      BY <1>4
    <3>2. QED
      BY <3>1, Zenon DEF IsSum
  <2>2. CASE t = {}
    BY <2>1, <2>2
  <2>3. CASE t # {}
    <3>1. Pick(t) \in t
      BY <2>3, PickIn
    <3>2. u \in SUBSET s /\ u # s /\ u \subseteq t /\ u \subseteq u
      BY <3>1
    <3>3. F(t)[u] = F(u)[u]
      <4>1. IsSum(l, t, F(t)) /\ IsSum(l, u, F(u)) /\ IsFiniteSet(u)
        BY <1>4, <1>5, <3>2
      <4> HIDE DEF u
      <4>2. \A i \in u : l[i].amount = l[i].amount
        OBVIOUS
      <4>3. QED
        BY <3>2, <4>1, <4>2, SumsAgree
    <3>4. QED
      BY <2>1, <2>3, <3>3
  <2>4. QED
    BY <2>2, <2>3
<1>7. \A t \in SUBSET s : v(t) = IF t = {} THEN 0 ELSE l[Pick(t)].amount + f[t \ {Pick(t)}]
  <2> SUFFICES ASSUME NEW t \in SUBSET s, t # {}
      PROVE  v(t) = l[Pick(t)].amount + f[t \ {Pick(t)}]
    OBVIOUS
  <2> DEFINE u == t \ {Pick(t)}
  <2>1. Pick(t) \in t
    BY PickIn
  <2>2. u \in SUBSET s /\ u # s
    BY <2>1
  <2>3. f[u] = F(u)[u]
    BY <1>6, <2>2
  <2>4. QED
    BY <2>3
<1>8. IsSum(l, s, f)
  BY <1>7, Zenon DEF IsSum
<1>9. QED
  BY <1>3, <1>8

\* SumOf, the fold of the community modules, is the value of such a function.
LEMMA SumOfIs ==
  ASSUME NEW l, NEW S, IsFiniteSet(S)
  PROVE  \E f : IsSum(l, S, f) /\ SumOf(l, S) = f[S]
<1>1. PICK f : IsSum(l, S, f)
  BY SumExists
<1> DEFINE iter[s \in SUBSET S] == IF s = {} THEN 0
             ELSE LET x == CHOOSE x \in s : TRUE IN l[x].amount + iter[s \ {x}]
<1>2. SumOf(l, S) = iter[S]
  BY DEF SumOf, MapThenSumSet, MapThenFoldSet
<1>3. f = [s \in SUBSET S |-> IF s = {} THEN 0
             ELSE LET x == CHOOSE x \in s : TRUE IN l[x].amount + f[s \ {x}]]
  BY <1>1, Zenon DEF IsSum, Pick
<1>4. iter = [s \in SUBSET S |-> IF s = {} THEN 0
             ELSE LET x == CHOOSE x \in s : TRUE IN l[x].amount + iter[s \ {x}]]
  BY <1>3, Zenon
<1>5. IsSum(l, S, iter)
  BY <1>4, Zenon DEF IsSum, Pick
<1>6. QED
  BY <1>2, <1>5, Zenon

\* SumOf takes one entry and sums the others.
LEMMA SumUnfold ==
  ASSUME NEW l, NEW S, IsFiniteSet(S)
  PROVE  SumOf(l, S) = IF S = {} THEN 0 ELSE l[Pick(S)].amount + SumOf(l, S \ {Pick(S)})
<1>1. PICK f : IsSum(l, S, f) /\ SumOf(l, S) = f[S]
  BY SumOfIs
<1>2. f[S] = IF S = {} THEN 0 ELSE l[Pick(S)].amount + f[S \ {Pick(S)}]
  BY <1>1, Zenon DEF IsSum
<1>3. CASE S = {}
  BY <1>1, <1>2, <1>3
<1>4. CASE S # {}
  <2> DEFINE u == S \ {Pick(S)}
  <2>1. IsFiniteSet(u) /\ u \subseteq S /\ u \subseteq u
    BY FS_Subset
  <2> HIDE DEF u
  <2>2. PICK g : IsSum(l, u, g) /\ SumOf(l, u) = g[u]
    BY <2>1, SumOfIs
  <2>3. \A i \in u : l[i].amount = l[i].amount
    OBVIOUS
  <2>4. f[u] = g[u]
    BY <1>1, <2>1, <2>2, <2>3, SumsAgree
  <2>5. QED
    BY <1>1, <1>2, <1>4, <2>2, <2>4 DEF u
<1>5. QED
  BY <1>3, <1>4

\* Rows with the same amounts have the same sum.
LEMMA SumsEqual ==
  ASSUME NEW l, NEW m, NEW S, IsFiniteSet(S), \A i \in S : l[i].amount = m[i].amount
  PROVE  SumOf(l, S) = SumOf(m, S)
<1>1. PICK f : IsSum(l, S, f) /\ SumOf(l, S) = f[S]
  BY SumOfIs
<1>2. PICK g : IsSum(m, S, g) /\ SumOf(m, S) = g[S]
  BY SumOfIs
<1>3. S \subseteq S
  OBVIOUS
<1>4. QED
  BY <1>1, <1>2, <1>3, SumsAgree

\* A sum of integers is an integer.
LEMMA SumType ==
  ASSUME NEW l, NEW S, IsFiniteSet(S), \A i \in S : l[i].amount \in Int
  PROVE  SumOf(l, S) \in Int
<1> DEFINE B == {s \in SUBSET S : SumOf(l, s) \notin Int}
<1>1. SUFFICES ASSUME B # {} PROVE FALSE
  OBVIOUS
<1>2. \A s \in B : IsFiniteSet(s)
  BY FS_Subset
<1>3. PICK s \in B : \A t \in B : t \subseteq s => t = s
  <2> HIDE DEF B
  <2>1. QED
    BY <1>1, <1>2, LeastSet
<1>4. SumOf(l, s) = IF s = {} THEN 0 ELSE l[Pick(s)].amount + SumOf(l, s \ {Pick(s)})
  BY <1>2, SumUnfold
<1>5. s # {}
  BY <1>4
<1>6. Pick(s) \in s
  BY <1>5, PickIn
<1>7. SumOf(l, s \ {Pick(s)}) \in Int
  BY <1>3, <1>6
<1>8. QED
  BY <1>4, <1>5, <1>6, <1>7

\* A sum of natural numbers is not negative.
LEMMA SumNatural ==
  ASSUME NEW l, NEW S, IsFiniteSet(S), \A i \in S : l[i].amount \in Nat
  PROVE  SumOf(l, S) \in Nat
<1> DEFINE B == {s \in SUBSET S : SumOf(l, s) \notin Nat}
<1>1. SUFFICES ASSUME B # {} PROVE FALSE
  OBVIOUS
<1>2. \A s \in B : IsFiniteSet(s)
  BY FS_Subset
<1>3. PICK s \in B : \A t \in B : t \subseteq s => t = s
  <2> HIDE DEF B
  <2>1. QED
    BY <1>1, <1>2, LeastSet
<1>4. SumOf(l, s) = IF s = {} THEN 0 ELSE l[Pick(s)].amount + SumOf(l, s \ {Pick(s)})
  BY <1>2, SumUnfold
<1>5. s # {}
  BY <1>4
<1>6. Pick(s) \in s
  BY <1>5, PickIn
<1>7. SumOf(l, s \ {Pick(s)}) \in Nat
  BY <1>3, <1>6
<1>8. QED
  BY <1>4, <1>5, <1>6, <1>7

\* Any entry may be taken first: the sum does not depend on the order.
LEMMA SumRemove ==
  ASSUME NEW l, NEW S, IsFiniteSet(S), \A i \in S : l[i].amount \in Int, NEW x \in S
  PROVE  SumOf(l, S) = l[x].amount + SumOf(l, S \ {x})
<1> DEFINE B == {s \in SUBSET S :
                   \E z \in s : SumOf(l, s) # l[z].amount + SumOf(l, s \ {z})}
<1>1. SUFFICES ASSUME B # {} PROVE FALSE
  OBVIOUS
<1>2. \A s \in B : IsFiniteSet(s)
  BY FS_Subset
<1>3. PICK s \in B : \A t \in B : t \subseteq s => t = s
  <2> HIDE DEF B
  <2>1. QED
    BY <1>1, <1>2, LeastSet
<1>4. PICK z \in s : SumOf(l, s) # l[z].amount + SumOf(l, s \ {z})
  OBVIOUS
<1> DEFINE y == Pick(s)
<1>5. y \in s
  BY <1>4, PickIn
<1>6. SumOf(l, s) = l[y].amount + SumOf(l, s \ {y})
  BY <1>2, <1>4, SumUnfold
<1> HIDE DEF y
<1>7. y # z
  BY <1>4, <1>6
<1>8. SumOf(l, s \ {y}) = l[z].amount + SumOf(l, (s \ {y}) \ {z})
  <2>1. s \ {y} \in SUBSET S /\ s \ {y} \notin B /\ z \in s \ {y}
    BY <1>3, <1>5, <1>7
  <2>2. QED
    BY <2>1
<1>9. SumOf(l, s \ {z}) = l[y].amount + SumOf(l, (s \ {z}) \ {y})
  <2>1. s \ {z} \in SUBSET S /\ s \ {z} \notin B /\ y \in s \ {z}
    BY <1>3, <1>5, <1>7
  <2>2. QED
    BY <2>1
<1> DEFINE u == (s \ {y}) \ {z}
<1>10. u = (s \ {z}) \ {y} /\ u \subseteq S /\ IsFiniteSet(u)
  BY FS_Subset
<1>11. SumOf(l, u) \in Int /\ l[y].amount \in Int /\ l[z].amount \in Int
  BY <1>5, <1>10, SumType
<1> HIDE DEF u, B
<1>12. SumOf(l, s) = l[y].amount + (l[z].amount + SumOf(l, u))
  BY <1>6, <1>8 DEF u
<1>13. SumOf(l, s \ {z}) = l[y].amount + SumOf(l, u)
  BY <1>9, <1>10
<1>14. QED
  BY <1>4, <1>11, <1>12, <1>13

-----------------------------------------------------------------------------
\* What Append does, by positions.
LEMMA Appended ==
  ASSUME NEW S, NEW s \in Seq(S), NEW e \in S
  PROVE  /\ Append(s, e) \in Seq(S) /\ Append(s, e) # <<>>
         /\ Len(s) \in Nat /\ Len(Append(s, e)) = Len(s) + 1
         /\ DOMAIN s = 1 .. Len(s) /\ DOMAIN Append(s, e) = 1 .. Len(s) + 1
         /\ \A i \in 1 .. Len(s) : Append(s, e)[i] = s[i] /\ s[i] \in S
         /\ Append(s, e)[Len(s) + 1] = e
OBVIOUS

\* The requests about bids, contracts, entries and the catalog leave the desk alone; only
\* a bid's own transaction continues into it.
LEMMA OwnRecords ==
  ASSUME Next, ~DeskNext, ~SaveBid
  PROVE  UNCHANGED deskVars
BY DEF Next, BidRequest, Request, BidRefused, RecordContract, Enter, Reverse, ReadCatalog,
     SaveScope, SavePrice

\* A request that waits is one of the desk's operations, with the row it was checked
\* against.
LEMMA Waiting ==
  ASSUME PostTypeOK, post.op # "none"
  PROVE  /\ DOMAIN post = {"op", "lead", "arg", "step", "row", "barred"}
         /\ post.op \in Operations /\ post.lead \in Leads
         /\ post.step \in {"commit", "status", "event"}
         /\ post.row \in Versions \cup {None}
         /\ post.op # "watch" => post.row # None
         /\ Asks(post.op, post.arg)
BY DEF PostTypeOK, NoPost

\* Steps that change the request that waits: it is answered, goes on to its next
\* transaction, or a new one is accepted.
LEMMA PostMoves ==
  ASSUME Next
  PROVE  /\ ops' = ops
         /\ \/ UNCHANGED post \/ Answer
            \/ post.op # "none" /\ \E step \in {"status", "event"} : Then(step)
            \/ DeskRequest \/ BidRequest
<1>1. ASSUME DeskNext PROVE
         /\ ops' = ops
         /\ \/ UNCHANGED post \/ Answer
            \/ post.op # "none" /\ \E step \in {"status", "event"} : Then(step)
            \/ DeskRequest
  BY <1>1 DEF DeskNext, DeskRequest, Request, Feedback, QueueInsert, QueueRefused, QueueStatus,
     QueueEvent, Control, Watch, SaveFacts, ReviewSite, SaveContact, Journal, Event, SaveWeights,
     WeightsRefused, Stops, Publish, Answer, At
<1>2. QED
  BY <1>1 DEF Next, BidRequest, Request, SaveBid, BidRefused, RecordContract, Enter, Reverse, ReadCatalog,
     SaveScope, SavePrice, Answer

\* Only save_feedback changes a lead's feedback and its log, the queue's second
\* transaction with the status Outreach queued.
LEMMA FeedbackMoves ==
  ASSUME Next, TypeOK
  PROVE  \/ UNCHANGED <<feedback, log>>
         \/ \E status \in Statuses \ {"New"} :
               /\ post.op \in {"feedback", "queue", "bid"}
               /\ SaveFeedback(post.lead, status, post.row)
               /\ post.op = "queue" => status = "Outreach_queued"
               /\ UNCHANGED <<journal, dnc>>
<1>1. CASE UNCHANGED deskVars
  BY <1>1 DEF deskVars
<1>2. CASE SaveBid
  <2>1. post.op = "bid" /\ post.arg.status \in {"draft", "sent", "won", "lost"}
    BY <1>2 DEF SaveBid, At, TypeOK, BidTypeOK
  <2>2. QED
    BY <1>2, <2>1 DEF SaveBid, LeadStatus, Statuses
<1>3. CASE Feedback
  <2>1. post.op = "feedback" /\ PostTypeOK
    BY <1>3 DEF Feedback, At, TypeOK, DeskTypeOK
  <2>2. post.arg \in Chosen
    BY <2>1, Waiting DEF Asks
  <2>3. QED
    BY <1>3, <2>1, <2>2 DEF Feedback, Statuses, Chosen
<1>4. CASE QueueStatus
  BY <1>4 DEF QueueStatus, At, Statuses
<1>5. CASE DeskNext /\ ~Feedback /\ ~QueueStatus
  BY <1>5 DEF DeskNext, DeskRequest, Request, QueueInsert, QueueRefused, 
     QueueEvent, Control, Watch, SaveFacts, ReviewSite, SaveContact, Journal, Event, SaveWeights,
     WeightsRefused, Stops, Publish, deskVars
<1>6. QED
  BY <1>1, <1>2, <1>3, <1>4, <1>5, OwnRecords

\* Steps that change the outreach queue, the do-not-contact list or the journal.
LEMMA OutreachMoves ==
  ASSUME Next
  PROVE  \/ UNCHANGED <<queue, dnc, journal>>
         \/ /\ QueueInsert \/ Control \/ QueueEvent \/ SaveBid
         \/ \E kind \in {"control", "facts", "review", "contact", "activity"} :
               At(kind, "event") /\ Event(kind)
<1>1. CASE UNCHANGED deskVars
  BY <1>1 DEF deskVars
<1>2. CASE DeskNext
  BY <1>2 DEF DeskNext, DeskRequest, Request, QueueRefused, Feedback, QueueStatus,
     Watch, SaveFacts, ReviewSite, SaveContact, Journal, SaveWeights,
     WeightsRefused, Stops, Publish, deskVars
<1>3. QED
  BY <1>1, <1>2, OwnRecords

\* Steps that change publications, watches, site decisions, contacts or weights.
LEMMA DeskMoves ==
  ASSUME Next
  PROVE  /\ UNCHANGED active \/ (\E k \in Leads, v \in Versions \cup {None} : Publish(k, v))
         /\ UNCHANGED watch \/ Watch
         /\ UNCHANGED <<facts, review, decided>> \/ SaveFacts \/ ReviewSite
         /\ UNCHANGED contacts \/ SaveContact
         /\ UNCHANGED <<weights, changes>> \/ SaveWeights
<1>1. CASE UNCHANGED deskVars
  BY <1>1 DEF deskVars
<1>2. CASE SaveBid
  BY <1>2 DEF SaveBid
<1>3. CASE DeskNext
  BY <1>3 DEF DeskNext, DeskRequest, Request, Feedback, QueueInsert, QueueRefused, QueueStatus,
     QueueEvent, Control, Journal, Event, WeightsRefused, Stops, Watch, SaveFacts, ReviewSite, SaveContact,
     SaveWeights, Publish, deskVars
<1>4. QED
  BY <1>1, <1>2, <1>3, OwnRecords

\* Steps that change bids, contracts, the ledger or the catalog.
LEMMA RecordMoves ==
  ASSUME Next
  PROVE  /\ UNCHANGED bids \/ SaveBid
         /\ UNCHANGED contracts \/ \E b \in Bids : RecordContract(b)
         /\ \/ UNCHANGED ledger
            \/ \E c \in contracts, kind \in {"invoiced", "received"}, a \in Amounts : Enter(c, kind, a)
            \/ \E c \in contracts, i \in DOMAIN ledger : Reverse(c, i)
         /\ \/ UNCHANGED <<scopes, prices, book>> \/ ReadCatalog
            \/ \E s \in Scopes, e \in 0 .. MaxVersion, n \in Names : SaveScope(s, e, n)
            \/ \E p \in Prices, e \in 0 .. MaxVersion, a \in Amounts : SavePrice(p, e, a)
<1>1. CASE UNCHANGED commercialVars
  BY <1>1 DEF commercialVars
<1>2. CASE SaveBid
  BY <1>2 DEF SaveBid
<1>3. CASE \E b \in Bids : RecordContract(b)
  BY <1>3 DEF RecordContract
<1>4. CASE \E c \in contracts, kind \in {"invoiced", "received"}, a \in Amounts : Enter(c, kind, a)
  BY <1>4 DEF Enter
<1>5. CASE \E c \in contracts, i \in DOMAIN ledger : Reverse(c, i)
  BY <1>5 DEF Reverse
<1>6. CASE ReadCatalog
  BY <1>6 DEF ReadCatalog
<1>7. CASE \E s \in Scopes, e \in 0 .. MaxVersion, n \in Names : SaveScope(s, e, n)
  BY <1>7 DEF SaveScope
<1>8. CASE \E p \in Prices, e \in 0 .. MaxVersion, a \in Amounts : SavePrice(p, e, a)
  BY <1>8 DEF SavePrice
<1>9. QED
  BY <1>1, <1>2, <1>3, <1>4, <1>5, <1>6, <1>7, <1>8 DEF Next, BidRequest, BidRefused

\* An accepted request is well formed.
LEMMA Requested ==
  ASSUME NEW op, NEW k, NEW arg, NEW first, Request(op, k, arg, first),
         DeskTypeOK, k \in Leads, op \in Operations, first \in {"commit", "event"},
         Asks(op, arg)
  PROVE  PostTypeOK' /\ post'.op = op /\ post'.arg = arg
<1>1. post' = [op |-> op, lead |-> k, arg |-> arg, step |-> first, row |-> active[k],
                barred |-> k \in dnc \/ feedback[k].status = "Not_a_fit"]
  BY DEF Request
<1>2. active[k] \in Versions \cup {None} /\ (op # "watch" => active[k] # None)
  BY DEF DeskTypeOK, Request
<1>3. QED
  BY <1>1, <1>2 DEF PostTypeOK

\* So is each of the desk's, and none of them is a bid's.
LEMMA DeskRequested ==
  ASSUME DeskRequest, DeskTypeOK
  PROVE  PostTypeOK' /\ post'.op # "bid"
<1>1. PICK op \in Operations \ {"bid"}, k \in Leads, first \in {"commit", "event"} :
         \E arg : Asks(op, arg) /\ Request(op, k, arg, first)
  BY Zenon DEF DeskRequest, Operations, Asks
<1>2. QED
  BY <1>1, Requested

\* Every step keeps the waiting request well formed.
LEMMA PostTyped ==
  ASSUME TypeOK, Next
  PROVE  PostTypeOK' /\ BidTypeOK'
<1>1. CASE UNCHANGED post
  BY <1>1, PostMoves DEF TypeOK, DeskTypeOK, PostTypeOK, BidTypeOK
<1>2. CASE Answer
  BY <1>2 DEF Answer, NoPost, PostTypeOK, BidTypeOK
<1>3. ASSUME post.op # "none", NEW step \in {"status", "event"}, Then(step)
      PROVE  PostTypeOK' /\ BidTypeOK'
  <2>1. PostTypeOK /\ BidTypeOK
    BY DEF TypeOK, DeskTypeOK
  <2>2. post' = [post EXCEPT !.step = step] /\ DOMAIN post = {"op", "lead", "arg", "step", "row", "barred"}
    BY <1>3, <2>1, Waiting DEF Then
  <2>3. /\ DOMAIN post' = DOMAIN post /\ post'.op = post.op /\ post'.lead = post.lead
        /\ post'.arg = post.arg /\ post'.row = post.row /\ post'.step = step
    BY <2>2
  <2>4. PostTypeOK'
    BY <1>3, <2>1, <2>3, Waiting DEF PostTypeOK
  <2>5. BidTypeOK'
    BY <2>1, <2>3 DEF BidTypeOK
  <2>6. QED
    BY <2>4, <2>5
<1>4. CASE DeskRequest
  BY <1>4, DeskRequested DEF TypeOK, BidTypeOK
<1>5. CASE BidRequest
  <2>1. PICK k \in Leads, b \in Bids, expected \in 0 .. MaxVersion - 1,
             status \in {"draft", "sent", "won", "lost"}, value \in Amounts \cup {0} :
          /\ (status = "won") = (value # 0)
          /\ Request("bid", k, [bid |-> b, expected |-> expected, status |-> status,
                                value |-> value], "commit")
    BY <1>5 DEF BidRequest
  <2> DEFINE arg == [bid |-> b, expected |-> expected, status |-> status, value |-> value]
  <2>2. PostTypeOK' /\ post'.op = "bid" /\ post'.arg = arg
    BY <2>1, Requested DEF TypeOK, Operations, Asks
  <2>3. QED
    BY <2>1, <2>2 DEF BidTypeOK
<1>6. QED
  BY <1>1, <1>2, <1>3, <1>4, <1>5, PostMoves

\* Every step keeps feedback and its log well formed.
LEMMA FeedbackTyped ==
  ASSUME TypeOK, Next
  PROVE  /\ feedback' \in [Leads -> [status : Statuses, scored : Versions \cup {None}]]
         /\ log' \in [Leads -> Seq([status : Statuses \ {"New"}, row : Versions])]
<1>1. CASE UNCHANGED <<feedback, log>>
  BY <1>1 DEF TypeOK, DeskTypeOK
<1>2. ASSUME NEW status \in Statuses \ {"New"}, post.op \in {"feedback", "queue", "bid"},
             SaveFeedback(post.lead, status, post.row)
      PROVE  /\ feedback' \in [Leads -> [status : Statuses, scored : Versions \cup {None}]]
             /\ log' \in [Leads -> Seq([status : Statuses \ {"New"}, row : Versions])]
  <2>1. post.lead \in Leads /\ post.row \in Versions
    BY <1>2, Waiting DEF TypeOK, DeskTypeOK
  <2>2. feedback \in [Leads -> [status : Statuses, scored : Versions \cup {None}]]
    BY DEF TypeOK, DeskTypeOK
  <2>3. log \in [Leads -> Seq([status : Statuses \ {"New"}, row : Versions])]
    BY DEF TypeOK, DeskTypeOK
  <2>4. Scored(feedback[post.lead], status, post.row) \in
           [status : Statuses, scored : Versions \cup {None}]
    BY <2>1, <2>2 DEF Scored
  <2>5. Append(log[post.lead], [status |-> status, row |-> post.row]) \in
           Seq([status : Statuses \ {"New"}, row : Versions])
    <3>1. [status |-> status, row |-> post.row] \in [status : Statuses \ {"New"}, row : Versions]
      BY <2>1
    <3>2. log[post.lead] \in Seq([status : Statuses \ {"New"}, row : Versions])
      BY <2>1, <2>3
    <3>3. QED
      BY <3>1, <3>2, Appended
  <2>6. QED
    BY <1>2, <2>1, <2>2, <2>3, <2>4, <2>5 DEF SaveFeedback
<1>3. QED
  BY <1>1, <1>2, FeedbackMoves

\* Every step keeps the queue, the do-not-contact list and the journal well formed.
LEMMA OutreachTyped ==
  ASSUME TypeOK, Next
  PROVE  /\ queue' \subseteq Leads /\ dnc' \subseteq Leads
         /\ journal' \in [Leads -> SUBSET {"outreach_queued", "control", "facts", "review",
                                           "contact", "activity"}]
<1> USE DEF TypeOK, DeskTypeOK
<1>1. CASE UNCHANGED <<queue, dnc, journal>>
  BY <1>1
<1>2. ASSUME post.op # "none" PROVE post.lead \in Leads
  BY <1>2, Waiting
<1>3. CASE QueueInsert
  BY <1>2, <1>3 DEF QueueInsert, At
<1>4. CASE Control
  BY <1>2, <1>4 DEF Control, At
<1>5. CASE QueueEvent
  BY <1>2, <1>5 DEF QueueEvent, At
<1>6. CASE SaveBid
  BY <1>2, <1>6 DEF SaveBid, At
<1>7. CASE \E kind \in {"control", "facts", "review", "contact", "activity"} :
              At(kind, "event") /\ Event(kind)
  BY <1>2, <1>7 DEF Event, At
<1>8. QED
  BY <1>1, <1>3, <1>4, <1>5, <1>6, <1>7, OutreachMoves

\* Every step keeps publications and watches well formed.
LEMMA WatchTyped ==
  ASSUME TypeOK, Next
  PROVE  /\ active' \in [Leads -> Versions \cup {None}]
         /\ watch' \in [Leads -> WatchRow \cup {None}]
<1>1. active' \in [Leads -> Versions \cup {None}]
  BY DeskMoves DEF TypeOK, DeskTypeOK, Publish
<1>2. CASE UNCHANGED watch
  BY <1>1, <1>2 DEF TypeOK, DeskTypeOK
<1>3. CASE Watch
  <2>1. post.lead \in Leads /\ post.row \in Versions \cup {None}
    BY <1>3, Waiting DEF Watch, At, TypeOK, DeskTypeOK
  <2>2. watch \in [Leads -> WatchRow \cup {None}]
    BY DEF TypeOK, DeskTypeOK
  <2>3. ASSUME post.row # None \/ watch[post.lead] # None
        PROVE  Watched(post.lead, post.arg, post.row) \in WatchRow
    <3>1. watch[post.lead] \in WatchRow \cup {None}
      BY <2>1, <2>2
    <3>2. QED
      BY <2>1, <2>3, <3>1 DEF Watched, WatchRow
  <2>4. QED
    BY <1>1, <1>3, <2>1, <2>2, <2>3 DEF Watch
<1>4. QED
  BY <1>2, <1>3, DeskMoves

\* Every step keeps facts, reviews and decisions well formed.
LEMMA SiteTyped ==
  ASSUME TypeOK, Next
  PROVE  /\ facts' \in [Leads -> FactRow]
         /\ review' \in [Leads -> ReviewRow \cup {None}]
         /\ decided' \in [Leads -> Decision \cup {None}]
<1>1. /\ facts \in [Leads -> FactRow]
      /\ review \in [Leads -> ReviewRow \cup {None}]
      /\ decided \in [Leads -> Decision \cup {None}]
  BY DEF TypeOK, DeskTypeOK
<1>2. CASE UNCHANGED <<facts, review, decided>>
  BY <1>1, <1>2
<1>3. CASE SaveFacts
  <2>1. post.lead \in Leads /\ post.arg \in FactEdits
    <3>1. post.op = "facts" /\ PostTypeOK
      BY <1>3 DEF SaveFacts, At, TypeOK, DeskTypeOK
    <3>2. QED
      BY <3>1, Waiting DEF Asks
  <2>2. [facts[post.lead] EXCEPT ![post.arg.field] = post.arg.value] \in FactRow
    BY <1>1, <2>1 DEF FactRow, FactEdits
  <2>3. [yes |-> post.arg.value = "yes", by |-> "fact"] \in Decision
    BY DEF Decision
  <2>4. QED
    BY <1>1, <1>3, <2>1, <2>2, <2>3 DEF SaveFacts
<1>4. CASE ReviewSite
  <2>1. post.lead \in Leads /\ post.arg \in BOOLEAN /\ post.row \in Versions
    <3>1. post.op = "review" /\ PostTypeOK
      BY <1>4 DEF ReviewSite, At, TypeOK, DeskTypeOK
    <3>2. QED
      BY <3>1, Waiting DEF Asks
  <2>2. facts[post.lead].named \in {"yes", "no"}
    BY <1>1, <2>1 DEF FactRow
  <2>3. /\ [yes |-> post.arg, row |-> post.row, named |-> facts[post.lead].named] \in ReviewRow
        /\ [yes |-> post.arg, by |-> "review", row |-> post.row,
            named |-> facts[post.lead].named] \in Decision
    BY <2>1, <2>2 DEF ReviewRow, Decision
  <2>4. QED
    BY <1>1, <1>4, <2>1, <2>3 DEF ReviewSite
<1>5. QED
  BY <1>2, <1>3, <1>4, DeskMoves

\* Every step keeps contacts, weights and their history well formed.
LEMMA SettingsTyped ==
  ASSUME TypeOK, Next
  PROVE  /\ contacts' \in [Leads -> SUBSET Contacts]
         /\ weights' \in Weights
         /\ changes' \in Seq([before : Weights, after : Weights, seen : Weights \cup {None}])
<1>1. contacts' \in [Leads -> SUBSET Contacts]
  <2>1. contacts \in [Leads -> SUBSET Contacts]
    BY DEF TypeOK, DeskTypeOK
  <2>2. CASE SaveContact
    <3>1. post.op = "contact" /\ PostTypeOK
      BY <2>2 DEF SaveContact, At, TypeOK, DeskTypeOK
    <3>2. post.lead \in Leads /\ post.arg \in Contacts
      BY <3>1, Waiting DEF Asks
    <3>3. QED
      BY <2>1, <2>2, <3>2 DEF SaveContact
  <2>3. QED
    BY <2>1, <2>2, DeskMoves
<1>2. /\ weights \in Weights
      /\ changes \in Seq([before : Weights, after : Weights, seen : Weights \cup {None}])
  BY DEF TypeOK, DeskTypeOK
<1>3. CASE UNCHANGED <<weights, changes>>
  BY <1>1, <1>2, <1>3
<1>4. CASE SaveWeights
  <2>1. post.op = "weights" /\ PostTypeOK
    BY <1>4 DEF SaveWeights, WeightsCurrent, At, TypeOK, DeskTypeOK
  <2>2. post.arg.new \in Weights /\ post.arg.seen \in Weights \cup {None}
    BY <2>1, Waiting DEF Asks
  <2>3. [before |-> weights, after |-> post.arg.new, seen |-> post.arg.seen] \in
          [before : Weights, after : Weights, seen : Weights \cup {None}]
    BY <1>2, <2>2
  <2>4. Append(changes, [before |-> weights, after |-> post.arg.new, seen |-> post.arg.seen])
          \in Seq([before : Weights, after : Weights, seen : Weights \cup {None}])
    BY <1>2, <2>3, Appended
  <2>5. QED
    BY <1>1, <1>2, <1>4, <2>2, <2>4 DEF SaveWeights
<1>5. QED
  BY <1>3, <1>4, DeskMoves

\* The rows of bids, contracts and the ledger.
Bid == [lead : Leads, status : {"draft", "sent", "won", "lost"}, value : Amounts \cup {0}]
Contract == [bid : Bids, version : 1 .. MaxVersion, value : Amounts]
Entry == [contract : Bids, kind : {"invoiced", "received", "reversal"}, amount : Int,
          reverses : Nat]

\* What save_bid adds to a bid.
LEMMA BidAdded ==
  ASSUME TypeOK, SaveBid
  PROVE  /\ post.arg.bid \in Bids /\ post.lead \in Leads
         /\ [lead |-> post.lead, status |-> post.arg.status, value |-> post.arg.value] \in Bid
         /\ Len(bids[post.arg.bid]) + 1 <= MaxVersion
         /\ (post.arg.status = "won") = (post.arg.value # 0)
<1>1. post.op = "bid" /\ PostTypeOK /\ BidTypeOK
  BY DEF SaveBid, At, TypeOK, DeskTypeOK
<1>2. post.lead \in Leads
  BY <1>1, Waiting
<1>3. /\ post.arg.bid \in Bids /\ post.arg.expected \in 0 .. MaxVersion - 1
      /\ post.arg.status \in {"draft", "sent", "won", "lost"}
      /\ post.arg.value \in Amounts \cup {0}
      /\ (post.arg.status = "won") = (post.arg.value # 0)
  BY <1>1 DEF BidTypeOK
<1>4. post.arg.expected = Len(bids[post.arg.bid])
  BY DEF SaveBid, BidCurrent
<1>5. Len(bids[post.arg.bid]) + 1 <= MaxVersion
  BY <1>3, <1>4, CommercialConstants
<1>6. QED
  BY <1>2, <1>3, <1>5 DEF Bid

\* Every step keeps the bids well formed: a version has a value just when it is won.
LEMMA BidsTyped ==
  ASSUME TypeOK, Next
  PROVE  /\ bids' \in [Bids -> Seq(Bid)]
         /\ \A b \in Bids : Len(bids'[b]) <= MaxVersion
         /\ \A b \in Bids : \A v \in DOMAIN bids'[b] :
               (bids'[b][v].status = "won") = (bids'[b][v].value # 0)
<1>1. /\ bids \in [Bids -> Seq(Bid)]
      /\ \A b \in Bids : Len(bids[b]) <= MaxVersion
      /\ \A b \in Bids : \A v \in DOMAIN bids[b] :
            (bids[b][v].status = "won") = (bids[b][v].value # 0)
  BY DEF TypeOK, Bid
<1>2. CASE UNCHANGED bids
  BY <1>1, <1>2
<1>3. CASE SaveBid
  <2> DEFINE c == post.arg.bid
             new == [lead |-> post.lead, status |-> post.arg.status, value |-> post.arg.value]
  <2>1. /\ c \in Bids /\ new \in Bid /\ Len(bids[c]) + 1 <= MaxVersion
        /\ (new.status = "won") = (new.value # 0)
    BY <1>3, BidAdded
  <2>2. bids' = [bids EXCEPT ![c] = Append(bids[c], new)]
    BY <1>3 DEF SaveBid
  <2> HIDE DEF new, c
  <2>3. bids[c] \in Seq(Bid)
    BY <1>1, <2>1
  <2>4. /\ Append(bids[c], new) \in Seq(Bid)
        /\ Len(Append(bids[c], new)) <= MaxVersion
        /\ \A v \in DOMAIN Append(bids[c], new) :
              (Append(bids[c], new)[v].status = "won") = (Append(bids[c], new)[v].value # 0)
    BY <1>1, <2>1, <2>3, Appended
  <2>5. ASSUME NEW b \in Bids
        PROVE  /\ bids'[b] \in Seq(Bid) /\ Len(bids'[b]) <= MaxVersion
               /\ \A v \in DOMAIN bids'[b] :
                     (bids'[b][v].status = "won") = (bids'[b][v].value # 0)
    <3>1. CASE b = c
      BY <1>1, <2>1, <2>2, <2>4, <3>1
    <3>2. CASE b # c
      BY <1>1, <2>2, <3>2
    <3>3. QED
      BY <3>1, <3>2
  <2>6. bids' \in [Bids -> Seq(Bid)]
    BY <1>1, <2>1, <2>2, <2>4
  <2>7. QED
    BY <2>5, <2>6
<1>4. QED
  BY <1>2, <1>3, RecordMoves

\* Every step keeps the contracts well formed.
LEMMA ContractsTyped ==
  ASSUME TypeOK, Next
  PROVE  contracts' \subseteq Contract
<1>1. contracts \subseteq Contract
  BY DEF TypeOK, Contract
<1>2. ASSUME NEW b \in Bids, RecordContract(b) PROVE contracts' \subseteq Contract
  <2>1. /\ bids[b] \in Seq(Bid) /\ bids[b] # <<>> /\ Len(bids[b]) <= MaxVersion
        /\ LastOf(bids[b]).status = "won"
        /\ \A v \in DOMAIN bids[b] : (bids[b][v].status = "won") = (bids[b][v].value # 0)
    BY <1>2 DEF RecordContract, Contractable, TypeOK, Bid
  <2>2. Len(bids[b]) \in 1 .. MaxVersion /\ Len(bids[b]) \in DOMAIN bids[b]
    BY <2>1, CommercialConstants
  <2>3. LastOf(bids[b]) \in Bid /\ LastOf(bids[b]).value # 0
    BY <2>1, <2>2 DEF LastOf
  <2>4. LastOf(bids[b]).value \in Amounts
    BY <2>3 DEF Bid
  <2>5. [bid |-> b, version |-> Len(bids[b]), value |-> LastOf(bids[b]).value] \in Contract
    BY <2>2, <2>4 DEF Contract
  <2>6. QED
    BY <1>1, <1>2, <2>5 DEF RecordContract
<1>3. QED
  BY <1>1, <1>2, RecordMoves

\* The entry a step adds to the ledger, if it adds one.
LEMMA EntryAdded ==
  ASSUME TypeOK, Next
  PROVE  \/ UNCHANGED ledger
         \/ \E e \in Entry :
               /\ ledger' = Append(ledger, e) /\ Len(ledger) + 1 \in DOMAIN ledger'
               /\ \/ e.kind \in {"invoiced", "received"} /\ e.amount \in Amounts /\ e.reverses = 0
                  \/ \E i \in DOMAIN ledger :
                        /\ e.kind = "reversal" /\ e.amount = 0 - ledger[i].amount /\ e.reverses = i
                        /\ e.contract = ledger[i].contract /\ ledger[i].reverses = 0
                        /\ ~\E j \in DOMAIN ledger : ledger[j].reverses = i
<1>1. /\ ledger \in Seq(Entry) /\ \A c \in contracts : c.bid \in Bids
      /\ \A i \in DOMAIN ledger : ledger[i] \in Entry /\ i \in Nat
  <2>1. ledger \in Seq(Entry)
    BY DEF TypeOK, Entry
  <2>2. \A c \in contracts : c.bid \in Bids
    BY DEF TypeOK
  <2>3. QED
    BY <2>1, <2>2
<1>2. ASSUME NEW c \in contracts, NEW kind \in {"invoiced", "received"}, NEW a \in Amounts,
             Enter(c, kind, a)
      PROVE  \E e \in Entry :
               /\ ledger' = Append(ledger, e) /\ Len(ledger) + 1 \in DOMAIN ledger'
               /\ e.kind \in {"invoiced", "received"} /\ e.amount \in Amounts /\ e.reverses = 0
  <2> DEFINE e == [contract |-> c.bid, kind |-> kind, amount |-> a, reverses |-> 0]
  <2>1. e \in Entry /\ a \in Amounts
    BY <1>1, CommercialConstants DEF Entry
  <2>2. ledger' = Append(ledger, e)
    BY <1>2 DEF Enter
  <2>3. Len(ledger) + 1 \in DOMAIN ledger'
    BY <1>1, <2>1, <2>2, Appended
  <2>4. QED
    BY <2>1, <2>2, <2>3
<1>3. ASSUME NEW c \in contracts, NEW i \in DOMAIN ledger, Reverse(c, i)
      PROVE  \E e \in Entry :
               /\ ledger' = Append(ledger, e) /\ Len(ledger) + 1 \in DOMAIN ledger'
               /\ e.kind = "reversal" /\ e.amount = 0 - ledger[i].amount /\ e.reverses = i
               /\ e.contract = ledger[i].contract /\ ledger[i].reverses = 0
               /\ ~\E j \in DOMAIN ledger : ledger[j].reverses = i
  <2> DEFINE e == [contract |-> c.bid, kind |-> "reversal", amount |-> 0 - ledger[i].amount,
                   reverses |-> i]
  <2>1. ledger[i].amount \in Int /\ i \in Nat /\ c.bid \in Bids
    BY <1>1 DEF Entry
  <2>2. e \in Entry
    BY <2>1 DEF Entry
  <2>3. ledger' = Append(ledger, e)
    BY <1>3 DEF Reverse
  <2>4. Len(ledger) + 1 \in DOMAIN ledger'
    BY <1>1, <2>2, <2>3, Appended
  <2>5. QED
    BY <1>3, <2>2, <2>3, <2>4 DEF Reverse, Reversible
<1>4. QED
  BY <1>2, <1>3, RecordMoves

\* Every step keeps the ledger well formed: an entry reverses an earlier one or none.
LEMMA LedgerTyped ==
  ASSUME TypeOK, Next
  PROVE  /\ ledger' \in Seq(Entry)
         /\ \A i \in DOMAIN ledger' : ledger'[i].reverses \in 0 .. i - 1
<1>1. ledger \in Seq(Entry) /\ \A i \in DOMAIN ledger : ledger[i].reverses \in 0 .. i - 1
  BY DEF TypeOK, Entry
<1>2. CASE UNCHANGED ledger
  BY <1>1, <1>2
<1>3. ASSUME NEW e \in Entry, ledger' = Append(ledger, e),
             e.reverses = 0 \/ e.reverses \in DOMAIN ledger
      PROVE  /\ ledger' \in Seq(Entry)
             /\ \A i \in DOMAIN ledger' : ledger'[i].reverses \in 0 .. i - 1
  BY <1>1, <1>3, Appended
<1>4. QED
  BY <1>2, <1>3, EntryAdded

\* Every step keeps scopes, prices and the price book well formed.
LEMMA CatalogTyped ==
  ASSUME TypeOK, Next
  PROVE  /\ scopes' \in [Scopes -> Seq(Names)]
         /\ prices' \in [Prices -> Seq(Amounts)]
         /\ book' \in [Prices -> Amounts \cup {None}]
<1>1. /\ scopes \in [Scopes -> Seq(Names)]
      /\ prices \in [Prices -> Seq(Amounts)]
      /\ book \in [Prices -> Amounts \cup {None}]
  BY DEF TypeOK
<1>2. Copied \in [Prices -> Seq(Amounts)]
  BY <1>1 DEF Copied
<1>3. CASE UNCHANGED <<scopes, prices, book>>
  BY <1>1, <1>3
<1>4. CASE ReadCatalog
  BY <1>1, <1>2, <1>4 DEF ReadCatalog
<1>5. ASSUME NEW s \in Scopes, NEW e \in 0 .. MaxVersion, NEW n \in Names, SaveScope(s, e, n)
      PROVE  /\ scopes' \in [Scopes -> Seq(Names)]
             /\ prices' \in [Prices -> Seq(Amounts)]
             /\ book' \in [Prices -> Amounts \cup {None}]
  BY <1>1, <1>2, <1>5 DEF SaveScope
<1>6. ASSUME NEW p \in Prices, NEW e \in 0 .. MaxVersion, NEW a \in Amounts, SavePrice(p, e, a)
      PROVE  /\ scopes' \in [Scopes -> Seq(Names)]
             /\ prices' \in [Prices -> Seq(Amounts)]
             /\ book' \in [Prices -> Amounts \cup {None}]
  BY <1>1, <1>2, <1>6 DEF SavePrice
<1>7. QED
  BY <1>3, <1>4, <1>5, <1>6, RecordMoves

\* TypeOK is inductive.
LEMMA TypeStep ==
  ASSUME TypeOK, [Next]_vars
  PROVE  TypeOK'
<1>1. CASE Next
  <2>1. DeskTypeOK'
    BY <1>1, PostMoves, PostTyped, FeedbackTyped, OutreachTyped, WatchTyped, SiteTyped, SettingsTyped
       DEF TypeOK, DeskTypeOK
  <2>2. /\ bids' \in [Bids -> Seq(Bid)]
        /\ \A b \in Bids : Len(bids'[b]) <= MaxVersion
        /\ \A b \in Bids : \A v \in DOMAIN bids'[b] :
              (bids'[b][v].status = "won") = (bids'[b][v].value # 0)
    BY <1>1, BidsTyped
  <2>3. /\ contracts' \subseteq Contract
        /\ ledger' \in Seq(Entry)
        /\ \A i \in DOMAIN ledger' : ledger'[i].reverses \in 0 .. i - 1
    BY <1>1, ContractsTyped, LedgerTyped
  <2>4. BidTypeOK'
    BY <1>1, PostTyped
  <2>5. /\ scopes' \in [Scopes -> Seq(Names)]
        /\ prices' \in [Prices -> Seq(Amounts)]
        /\ book' \in [Prices -> Amounts \cup {None}]
    BY <1>1, CatalogTyped
  <2>6. QED
    BY <2>1, <2>2, <2>3, <2>4, <2>5, Zenon DEF TypeOK, Bid, Contract, Entry
<1>2. CASE UNCHANGED vars
  <2>1. DeskTypeOK'
    BY <1>2 DEF vars, deskVars, TypeOK, DeskTypeOK, PostTypeOK
  <2>2. BidTypeOK'
    BY <1>2 DEF vars, TypeOK, BidTypeOK
  <2>3. UNCHANGED commercialVars
    BY <1>2 DEF vars
  <2>4. QED
    BY <2>1, <2>2, <2>3, Zenon DEF TypeOK, commercialVars
<1>3. QED
  BY <1>1, <1>2

\* TypeOK holds at the start.
LEMMA TypeInit ==
  ASSUME Init
  PROVE  TypeOK
<1>1. DeskTypeOK
  <2>1. PostTypeOK
    BY DEF Init, DeskInit, PostTypeOK
  <2>2. /\ [status |-> "New", scored |-> None] \in [status : Statuses, scored : Versions \cup {None}]
        /\ Unset \in FactRow
    BY DEF Statuses, Unset, FactRow
  <2>3. QED
    BY <2>1, <2>2 DEF Init, DeskInit, DeskTypeOK
<1>2. BidTypeOK
  BY DEF Init, DeskInit, NoPost, BidTypeOK
<1>3. (CHOOSE a \in Amounts : TRUE) \in Amounts
  BY CommercialConstants
<1>4. book \in [Prices -> Amounts \cup {None}]
  BY <1>3 DEF Init, CommercialInit
<1>5. scopes \in [Scopes -> Seq(Names)]
  BY CommercialConstants DEF Init, CommercialInit
<1>6. QED
  BY <1>1, <1>2, <1>4, <1>5, CommercialConstants DEF Init, CommercialInit, TypeOK

\* Row i of a lead's log begins the run of one status that the log ends with, and that
\* row scored the lead's feedback.
RunStarts(k, i) ==
    /\ \A j \in i .. Len(log[k]) : log[k][j].status = log[k][i].status
    /\ i = 1 \/ log[k][i - 1].status # log[k][i].status
Scores(k) ==
    IF log[k] = <<>> THEN feedback[k] = [status |-> "New", scored |-> None]
    ELSE \E i \in DOMAIN log[k] :
            /\ RunStarts(k, i)
            /\ feedback[k] = [status |-> log[k][Len(log[k])].status, scored |-> log[k][i].row]

\* A row of a lead's log.
LogRow == [status : Statuses \ {"New"}, row : Versions]

\* The rows of a lead's log.
LEMMA LogTyped ==
  ASSUME TypeOK, NEW k \in Leads
  PROVE  /\ log[k] \in Seq(LogRow) /\ Len(log[k]) \in Nat /\ DOMAIN log[k] = 1 .. Len(log[k])
         /\ log[k] # <<>> <=> Len(log[k]) # 0
         /\ \A i \in DOMAIN log[k] : log[k][i] \in LogRow
<1>1. log[k] \in Seq(LogRow)
  BY DEF TypeOK, DeskTypeOK, LogRow
<1>2. QED
  BY <1>1

\* The latest run of equal statuses has one first event.
LEMMA OneRun ==
  ASSUME TypeOK, NEW k \in Leads, NEW i \in DOMAIN log[k], RunStarts(k, i)
  PROVE  FirstOfRun(k) = i
<1> DEFINE n == Len(log[k])
<1>1. n \in Nat /\ DOMAIN log[k] = 1 .. n
  BY LogTyped
<1> HIDE DEF n
<1>2. ASSUME NEW a \in 1 .. n, NEW b \in 1 .. n, a < b,
             \A j \in a .. n : log[k][j].status = log[k][a].status,
             b = 1 \/ log[k][b - 1].status # log[k][b].status
      PROVE  FALSE
  <2>1. b \in a .. n /\ b - 1 \in a .. n /\ b # 1
    BY <1>1, <1>2
  <2>2. QED
    BY <1>2, <2>1
<1>3. \A j \in DOMAIN log[k] :
         (/\ \A l \in j .. Len(log[k]) : log[k][l].status = log[k][j].status
          /\ j = 1 \/ log[k][j - 1].status # log[k][j].status) => j = i
  <2> SUFFICES ASSUME NEW j \in DOMAIN log[k],
                      \A l \in j .. n : log[k][l].status = log[k][j].status,
                      j = 1 \/ log[k][j - 1].status # log[k][j].status,
                      j # i
               PROVE  FALSE
    BY DEF n
  <2>1. /\ \A l \in i .. n : log[k][l].status = log[k][i].status
        /\ i = 1 \/ log[k][i - 1].status # log[k][i].status
    BY DEF RunStarts, n
  <2>2. i \in 1 .. n /\ j \in 1 .. n
    BY <1>1
  <2>3. i < j \/ j < i
    BY <1>1, <2>2
  <2>4. QED
    BY <1>2, <2>1, <2>2, <2>3
<1>4. QED
  BY <1>3, Zenon DEF FirstOfRun, RunStarts

\* Feedback keeps the row at which its run of one status began: save_feedback takes a
\* new row only when the status changes.
LEMMA ScoresStep ==
  ASSUME TypeOK, Next, \A k \in Leads : Scores(k)
  PROVE  \A k \in Leads : Scores(k)'
<1> SUFFICES ASSUME NEW k \in Leads PROVE Scores(k)'
  OBVIOUS
<1>1. CASE feedback'[k] = feedback[k] /\ log'[k] = log[k]
  BY <1>1 DEF Scores, RunStarts
<1>2. ASSUME NEW status \in Statuses \ {"New"}, post.op \in {"feedback", "queue", "bid"},
             post.lead = k, SaveFeedback(k, status, post.row)
      PROVE  Scores(k)'
  <2> DEFINE row == post.row  e == [status |-> status, row |-> row]  n == Len(log[k])
  <2>1. row \in Versions
    BY <1>2, Waiting DEF TypeOK, DeskTypeOK
  <2>2. e \in LogRow
    BY <2>1 DEF LogRow
  <2>3. /\ log[k] \in Seq(LogRow) /\ n \in Nat /\ DOMAIN log[k] = 1 .. n
        /\ log[k] # <<>> <=> n # 0 /\ \A i \in 1 .. n : log[k][i] \in LogRow
    BY LogTyped
  <2>4. /\ log'[k] = Append(log[k], e)
        /\ feedback'[k] = Scored(feedback[k], status, row)
    BY <1>2 DEF SaveFeedback, TypeOK, DeskTypeOK
  <2>5. /\ Len(log'[k]) = n + 1 /\ DOMAIN log'[k] = 1 .. n + 1 /\ log'[k] # <<>>
        /\ \A i \in 1 .. n : log'[k][i] = log[k][i]
        /\ log'[k][n + 1] = e
    BY <2>2, <2>3, <2>4, Appended
  <2>6. e.status = status /\ e.row = row
    OBVIOUS
  <2> HIDE DEF n, e, row
  <2>7. CASE log[k] = <<>>
    <3>1. feedback[k] = [status |-> "New", scored |-> None] /\ n = 0
      BY <2>3, <2>7 DEF Scores
    <3>2. feedback'[k] = [status |-> status, scored |-> row]
      BY <2>4, <3>1 DEF Scored
    <3>3. RunStarts(k, 1)'
      BY <2>5, <3>1 DEF RunStarts
    <3>4. QED
      BY <2>5, <2>6, <3>1, <3>2, <3>3 DEF Scores
  <2>8. CASE log[k] # <<>>
    <3>1. PICK i \in 1 .. n :
             /\ RunStarts(k, i)
             /\ feedback[k] = [status |-> log[k][n].status, scored |-> log[k][i].row]
      BY <2>3, <2>8 DEF Scores, n
    <3>2. /\ \A j \in i .. n : log[k][j].status = log[k][i].status
          /\ i = 1 \/ log[k][i - 1].status # log[k][i].status
      BY <3>1 DEF RunStarts, n
    <3>3. n \in 1 .. n /\ n + 1 \in 1 .. n + 1 /\ n \in i .. n
      BY <2>3, <2>8
    <3>4. feedback[k].scored = log[k][i].row /\ feedback[k].status = log[k][n].status
          /\ feedback[k].scored # None
      <4>1. log[k][i].row # None
        BY <2>3, DeskConstants DEF LogRow
      <4>2. QED
        BY <3>1, <4>1
    <3>5. CASE log[k][n].status = status
      <4>1. feedback'[k] = [status |-> status, scored |-> log[k][i].row]
        BY <2>4, <3>4, <3>5 DEF Scored
      <4>2. log[k][i].status = status
        BY <3>2, <3>3, <3>5
      <4>3. \A j \in i .. n + 1 : log'[k][j].status = status
        <5>1. ASSUME NEW j \in i .. n PROVE log'[k][j].status = status
          <6>1. j \in 1 .. n
            BY <2>3
          <6>2. QED
            BY <2>5, <3>2, <4>2, <6>1
        <5>2. \A j \in i .. n + 1 : j \in i .. n \/ j = n + 1
          BY <2>3
        <5>3. QED
          BY <2>5, <2>6, <5>1, <5>2
      <4>4. i = 1 \/ log'[k][i - 1].status # log'[k][i].status
        <5>1. i = 1 \/ i - 1 \in 1 .. n
          BY <2>3
        <5>2. QED
          BY <2>5, <3>2, <5>1
      <4>5. /\ i \in 1 .. n + 1 /\ i \in i .. n + 1 /\ log'[k][i].row = log[k][i].row
            /\ log'[k][n + 1].status = status
        BY <2>3, <2>5, <2>6
      <4>6. RunStarts(k, i)'
        BY <2>5, <4>3, <4>4, <4>5 DEF RunStarts
      <4>7. QED
        BY <2>5, <4>1, <4>5, <4>6 DEF Scores
    <3>6. CASE log[k][n].status # status
      <4>1. feedback'[k] = [status |-> status, scored |-> row]
        BY <2>4, <3>4, <3>6 DEF Scored
      <4>2. PICK m : m = n + 1
        OBVIOUS
      <4>3. m \in 1 .. n + 1 /\ m - 1 = n /\ \A j \in m .. m : j = m
        BY <2>3, <4>2
      <4>4. log'[k][n].status # log'[k][m].status
        BY <2>5, <2>6, <3>3, <3>6, <4>2
      <4>5. RunStarts(k, m)'
        BY <2>5, <4>2, <4>3, <4>4 DEF RunStarts
      <4>6. QED
        BY <2>5, <2>6, <4>1, <4>2, <4>3, <4>5 DEF Scores
    <3>7. QED
      BY <3>5, <3>6
  <2>9. QED
    BY <2>7, <2>8
<1>3. QED
  <2>1. CASE UNCHANGED <<feedback, log>>
    BY <1>1, <2>1
  <2>2. ASSUME NEW status \in Statuses \ {"New"}, post.op \in {"feedback", "queue", "bid"},
               SaveFeedback(post.lead, status, post.row), post.lead # k
        PROVE  feedback'[k] = feedback[k] /\ log'[k] = log[k]
    BY <2>2 DEF SaveFeedback, TypeOK, DeskTypeOK
  <2>3. QED
    BY <1>1, <1>2, <2>1, <2>2, FeedbackMoves

\* An outreach event is journalled only for a lead whose log has been queued, also while
\* the event still waits for its transaction.
HasQueued(k) == \E i \in DOMAIN log[k] : log[k][i].status = "Outreach_queued"
Outreach ==
    /\ \A k \in Leads : "outreach_queued" \in journal[k] => HasQueued(k)
    /\ At("queue", "event") => HasQueued(post.lead)
    /\ dnc \cap queue = {}

\* A log only grows.
LEMMA LogGrows ==
  ASSUME TypeOK, Next, NEW k \in Leads, HasQueued(k)
  PROVE  HasQueued(k)'
<1>1. CASE log'[k] = log[k]
  BY <1>1 DEF HasQueued
<1>2. ASSUME NEW status \in Statuses \ {"New"}, post.op \in {"feedback", "queue", "bid"},
             SaveFeedback(k, status, post.row), post.lead = k
      PROVE  HasQueued(k)'
  <2>1. [status |-> status, row |-> post.row] \in LogRow
    BY <1>2, Waiting DEF TypeOK, DeskTypeOK, LogRow
  <2>2. log'[k] = Append(log[k], [status |-> status, row |-> post.row])
    BY <1>2 DEF SaveFeedback, TypeOK, DeskTypeOK
  <2>3. log[k] \in Seq(LogRow)
    BY LogTyped
  <2>4. \A i \in DOMAIN log[k] : i \in DOMAIN log'[k] /\ log'[k][i] = log[k][i]
    BY <2>1, <2>2, <2>3, Appended
  <2>5. QED
    BY <2>4 DEF HasQueued
<1>3. QED
  <2>1. ASSUME NEW status \in Statuses \ {"New"},
               SaveFeedback(post.lead, status, post.row), post.lead # k
        PROVE  log'[k] = log[k]
    BY <2>1 DEF SaveFeedback, TypeOK, DeskTypeOK
  <2>2. QED
    BY <1>1, <1>2, <2>1, FeedbackMoves

\* Only queue's second transaction leads to its third.
LEMMA QueueReached ==
  ASSUME TypeOK, Next, At("queue", "event")'
  PROVE  UNCHANGED post \/ QueueStatus
<1>1. CASE Answer
  BY <1>1 DEF Answer, At, NoPost
<1>2. CASE DeskRequest
  <2>1. PICK op \in Operations, k \in Leads, first \in {"commit", "event"} :
           (op = "queue" => first = "commit") /\ \E arg : Request(op, k, arg, first)
    BY <1>2, Zenon DEF DeskRequest, Operations
  <2>2. QED
    BY <2>1 DEF Request, At
<1>3. CASE BidRequest
  <2>1. PICK k, arg : Request("bid", k, arg, "commit")
    BY <1>3 DEF BidRequest
  <2>2. QED
    BY <2>1 DEF Request, At
<1>4. CASE \E step \in {"status", "event"} : post.op # "none" /\ Then(step)
  <2>1. post.op = "queue"
    <3>1. /\ post.op # "none" /\ DOMAIN post = {"op", "lead", "arg", "step", "row", "barred"}
          /\ \E step : post' = [post EXCEPT !.step = step]
      BY <1>4, Waiting DEF TypeOK, DeskTypeOK, Then
    <3>2. post'.op = post.op
      BY <3>1
    <3>3. QED
      BY <3>2 DEF At
  <2>2. CASE QueueInsert
    <3>1. Answer \/ Then("status")
      BY <2>2 DEF QueueInsert
    <3>2. CASE Then("status")
      BY <3>2, <1>4, Waiting DEF TypeOK, DeskTypeOK, Then, At
    <3>3. QED
      BY <1>1, <3>1, <3>2
  <2>3. CASE UNCHANGED post
    BY <2>3
  <2>4. QED
    BY <1>1, <1>2, <1>3, <2>1, <2>2, <2>3 DEF Next, DeskNext, Feedback, QueueRefused, QueueStatus,
       QueueEvent, Control, Watch, SaveFacts, ReviewSite, SaveContact, Journal, Event, SaveWeights,
       WeightsRefused, WeightsCurrent, Stops, Publish, Answer, At, SaveBid, BidRefused, RecordContract,
       Enter, Reverse, ReadCatalog, SaveScope, SavePrice
<1>5. QED
  BY <1>1, <1>2, <1>3, <1>4, PostMoves

\* A queued event follows the log's row of that status, and nobody on the
\* do-not-contact list is in the queue.
LEMMA OutreachStep ==
  ASSUME TypeOK, Next, Outreach
  PROVE  Outreach'
<1>1. At("queue", "event")' => HasQueued(post.lead)'
  <2>1. SUFFICES ASSUME At("queue", "event")' PROVE HasQueued(post.lead)'
    OBVIOUS
  <2>2. CASE UNCHANGED post
    <3>1. At("queue", "event") /\ post.op # "none" /\ post'.lead = post.lead
      BY <2>1, <2>2 DEF At
    <3>2. PICK k \in Leads : k = post.lead
      BY <3>1, Waiting DEF TypeOK, DeskTypeOK
    <3>3. HasQueued(k)'
      BY <3>1, <3>2, LogGrows DEF Outreach
    <3>4. QED
      BY <2>2, <3>2, <3>3 DEF HasQueued
  <2>3. CASE QueueStatus
    <3>1. post.op # "none"
      BY <2>3 DEF QueueStatus, At
    <3>2. PICK k \in Leads : k = post.lead /\ post.row \in Versions
      BY <2>3, <3>1, Waiting DEF QueueStatus, At, TypeOK, DeskTypeOK
    <3> DEFINE e == [status |-> "Outreach_queued", row |-> post.row]
    <3>3. e \in LogRow
      BY <3>2 DEF LogRow, Statuses
    <3>4. log'[k] = Append(log[k], e) /\ log[k] \in Seq(LogRow)
      BY <2>3, <3>2, LogTyped DEF QueueStatus, SaveFeedback, TypeOK, DeskTypeOK
    <3>5. HasQueued(k)'
      <4>1. e.status = "Outreach_queued"
        OBVIOUS
      <4> HIDE DEF e
      <4>2. Len(log[k]) + 1 \in DOMAIN log'[k] /\ log'[k][Len(log[k]) + 1] = e
        BY <3>3, <3>4, Appended
      <4>3. QED
        BY <4>1, <4>2 DEF HasQueued
    <3>6. post'.lead = k
      BY <2>3, <3>1, <3>2, Waiting DEF QueueStatus, Then, TypeOK, DeskTypeOK
    <3>7. QED
      BY <3>5, <3>6 DEF HasQueued
  <2>4. QED
    BY <2>1, <2>2, <2>3, QueueReached
<1>2. ASSUME NEW k \in Leads, "outreach_queued" \in journal'[k] PROVE HasQueued(k)'
  <2>1. "outreach_queued" \in journal[k] \/ (QueueEvent /\ post.lead = k)
    <3>1. ASSUME NEW kind \in {"control", "facts", "review", "contact", "activity"},
                 At(kind, "event"), Event(kind)
          PROVE  "outreach_queued" \in journal[k]
      BY <1>2, <3>1 DEF Event, TypeOK, DeskTypeOK
    <3>2. CASE QueueEvent
      BY <1>2, <3>2 DEF QueueEvent, TypeOK, DeskTypeOK
    <3>3. CASE UNCHANGED journal
      BY <1>2, <3>3
    <3>4. QED
      BY <3>1, <3>2, <3>3, OutreachMoves DEF QueueInsert, Control, SaveBid
  <2>2. HasQueued(k)
    BY <2>1 DEF Outreach, QueueEvent
  <2>3. QED
    BY <2>2, LogGrows
<1>3. dnc' \cap queue' = {}
  BY OutreachMoves DEF Outreach, QueueInsert, Control, QueueEvent, SaveBid, Event
<1>4. QED
  BY <1>1, <1>2, <1>3 DEF Outreach

\* What a site's review says is the operator's: no decision yet, a fact that no review
\* followed, or a review that stands.
Decides(k) ==
    \/ decided[k] = None /\ review[k] = None /\ facts[k].verified # "yes"
    \/ /\ decided[k] # None /\ decided[k].by = "fact" /\ review[k] = None
       /\ decided[k].yes = (facts[k].verified = "yes")
    \/ /\ decided[k] # None /\ decided[k].by = "review" /\ review[k] # None
       /\ decided[k].yes = review[k].yes /\ decided[k].row = review[k].row
       /\ decided[k].named = review[k].named

\* facts, review and decided change together: a fact clears the review, a review stands
\* for itself.
LEMMA DecidesStep ==
  ASSUME TypeOK, Next, \A k \in Leads : Decides(k)
  PROVE  \A k \in Leads : Decides(k)'
<1> SUFFICES ASSUME NEW k \in Leads PROVE Decides(k)'
  OBVIOUS
<1>1. /\ facts \in [Leads -> FactRow]
      /\ review \in [Leads -> ReviewRow \cup {None}]
      /\ decided \in [Leads -> Decision \cup {None}]
  BY DEF TypeOK, DeskTypeOK
<1>2. CASE facts'[k] = facts[k] /\ review'[k] = review[k] /\ decided'[k] = decided[k]
  BY <1>2 DEF Decides
<1>3. CASE SaveFacts /\ post.lead = k
  <2>1. post.arg \in FactEdits
    <3>1. post.op = "facts" /\ PostTypeOK
      BY <1>3 DEF SaveFacts, At, TypeOK, DeskTypeOK
    <3>2. QED
      BY <3>1, Waiting DEF Asks
  <2>2. CASE post.arg.field = "verified"
    <3>1. decided'[k] = [yes |-> post.arg.value = "yes", by |-> "fact"] /\ review'[k] = None
      BY <1>1, <1>3, <2>2 DEF SaveFacts
    <3>2. facts'[k].verified = post.arg.value
      BY <1>1, <1>3, <2>2 DEF SaveFacts, FactRow
    <3>3. decided'[k] \in Decision
      BY <3>1 DEF Decision
    <3>4. decided'[k] # None /\ decided'[k].by = "fact" /\ decided'[k].yes = (post.arg.value = "yes")
      BY <3>1, <3>3, NoneIsNoRow
    <3>5. QED
      BY <3>1, <3>2, <3>4 DEF Decides
  <2>3. CASE post.arg.field # "verified"
    <3>1. decided'[k] = decided[k] /\ review'[k] = review[k]
      BY <1>3, <2>3 DEF SaveFacts
    <3>2. facts'[k].verified = facts[k].verified
      BY <1>1, <1>3, <2>1, <2>3 DEF SaveFacts, FactRow, FactEdits
    <3>3. QED
      BY <3>1, <3>2 DEF Decides
  <2>4. QED
    BY <2>2, <2>3
<1>4. CASE ReviewSite /\ post.lead = k
  <2>1. post.arg \in BOOLEAN /\ post.row \in Versions
    <3>1. post.op = "review" /\ PostTypeOK
      BY <1>4 DEF ReviewSite, At, TypeOK, DeskTypeOK
    <3>2. QED
      BY <3>1, Waiting DEF Asks
  <2>2. facts[k].named \in {"yes", "no"}
    BY <1>1 DEF FactRow
  <2>3. /\ review'[k] = [yes |-> post.arg, row |-> post.row, named |-> facts[k].named]
        /\ decided'[k] = [yes |-> post.arg, by |-> "review", row |-> post.row,
                          named |-> facts[k].named]
    BY <1>1, <1>4 DEF ReviewSite
  <2>4. review'[k] # None /\ decided'[k] # None
    BY <2>1, <2>2, <2>3, NoneIsNoRow DEF ReviewRow, Decision
  <2>5. QED
    BY <2>3, <2>4 DEF Decides
<1>5. (SaveFacts \/ ReviewSite) /\ post.lead # k =>
         facts'[k] = facts[k] /\ review'[k] = review[k] /\ decided'[k] = decided[k]
  BY <1>1 DEF SaveFacts, ReviewSite
<1>6. QED
  BY <1>2, <1>3, <1>4, <1>5, DeskMoves

\* The weights in use and the history of their changes change together.
LEMMA WeightsStep ==
  ASSUME TypeOK, Next, WeightsFollowReviews
  PROVE  WeightsFollowReviews'
<1> DEFINE Row == [before : Weights, after : Weights, seen : Weights \cup {None}]
           n == Len(changes)
           e == [before |-> weights, after |-> post.arg.new, seen |-> post.arg.seen]
<1>1. changes \in Seq(Row)
  BY DEF TypeOK, DeskTypeOK
<1>2. CASE UNCHANGED <<weights, changes>>
  BY <1>2 DEF WeightsFollowReviews
<1>3. CASE SaveWeights /\ post.arg.new = weights
  BY <1>2, <1>3 DEF SaveWeights
<1>4. CASE SaveWeights /\ post.arg.new # weights
  <2>1. e \in Row
    <3>1. post.op = "weights" /\ PostTypeOK
      BY <1>4 DEF SaveWeights, WeightsCurrent, At, TypeOK, DeskTypeOK
    <3>2. post.arg.new \in Weights /\ post.arg.seen \in Weights \cup {None}
      BY <3>1, Waiting DEF Asks
    <3>3. QED
      BY <3>2 DEF TypeOK, DeskTypeOK
  <2>2. changes' = Append(changes, e) /\ weights' = post.arg.new
    BY <1>4 DEF SaveWeights
  <2>3. e.before = weights /\ e.after = weights' /\ e.seen \in {None, e.before}
    BY <1>4, <2>2 DEF SaveWeights, WeightsCurrent
  <2> HIDE DEF e, Row
  <2>4. /\ n \in Nat /\ Len(changes') = n + 1 /\ DOMAIN changes' = 1 .. n + 1
        /\ DOMAIN changes = 1 .. n /\ \A i \in 1 .. n : changes'[i] = changes[i]
        /\ changes'[n + 1] = e /\ changes' # <<>> /\ (n > 0 => changes # <<>>)
    BY <1>1, <2>1, <2>2, Appended
  <2> HIDE DEF n
  <2>5. /\ \A i \in 1 .. n : /\ changes[i].seen \in {None, changes[i].before}
                             /\ i > 1 => changes[i].before = changes[i - 1].after
        /\ n > 0 => changes[n].after = weights
    BY <2>4 DEF WeightsFollowReviews, n
  <2>6. ASSUME NEW i \in 1 .. n + 1
        PROVE  /\ changes'[i].seen \in {None, changes'[i].before}
               /\ i > 1 => changes'[i].before = changes'[i - 1].after
    <3>1. CASE i = n + 1
      BY <2>3, <2>4, <2>5, <3>1
    <3>2. CASE i \in 1 .. n
      <4>1. i > 1 => i - 1 \in 1 .. n
        BY <2>4, <3>2
      <4>2. QED
        BY <2>4, <2>5, <3>2, <4>1
    <3>3. QED
      BY <2>4, <3>1, <3>2
  <2>7. changes'[Len(changes')].after = weights'
    BY <2>3, <2>4
  <2>8. QED
    BY <2>4, <2>6, <2>7 DEF WeightsFollowReviews
<1>5. QED
  BY <1>2, <1>3, <1>4, DeskMoves

\* A contract keeps the won version it names, since save_bid only adds versions.
LEMMA ContractsStep ==
  ASSUME TypeOK, Next, ContractsNameWonBids
  PROVE  ContractsNameWonBids'
<1>1. /\ bids \in [Bids -> Seq(Bid)] /\ \A c \in contracts : c.bid \in Bids
  BY DEF TypeOK, Bid
<1>2. \A b \in Bids : \A v \in DOMAIN bids[b] : v \in DOMAIN bids'[b] /\ bids'[b][v] = bids[b][v]
  <2>1. CASE UNCHANGED bids
    BY <2>1
  <2>2. CASE SaveBid
    <3> DEFINE new == [lead |-> post.lead, status |-> post.arg.status, value |-> post.arg.value]
    <3>1. post.arg.bid \in Bids /\ new \in Bid
      BY <2>2, BidAdded
    <3>2. bids' = [bids EXCEPT ![post.arg.bid] = Append(bids[post.arg.bid], new)]
      BY <2>2 DEF SaveBid
    <3> HIDE DEF new
    <3>3. bids[post.arg.bid] \in Seq(Bid)
      BY <1>1, <3>1
    <3>4. \A v \in DOMAIN bids[post.arg.bid] :
             /\ v \in DOMAIN Append(bids[post.arg.bid], new)
             /\ Append(bids[post.arg.bid], new)[v] = bids[post.arg.bid][v]
      BY <3>1, <3>3, Appended
    <3>5. QED
      BY <1>1, <3>1, <3>2, <3>4
  <2>3. QED
    BY <2>1, <2>2, RecordMoves
<1>3. ASSUME NEW c \in contracts
      PROVE  /\ c.version \in DOMAIN bids'[c.bid]
             /\ bids'[c.bid][c.version].status = "won"
             /\ bids'[c.bid][c.version].value = c.value
  BY <1>1, <1>2 DEF ContractsNameWonBids
<1>4. CASE UNCHANGED contracts
  BY <1>3, <1>4 DEF ContractsNameWonBids
<1>5. ASSUME NEW b \in Bids, RecordContract(b) PROVE ContractsNameWonBids'
  <2> DEFINE new == [bid |-> b, version |-> Len(bids[b]), value |-> LastOf(bids[b]).value]
  <2>1. /\ contracts' = contracts \cup {new} /\ ~\E c \in contracts : c.bid = b
        /\ bids[b] # <<>> /\ LastOf(bids[b]).status = "won" /\ bids' = bids
    BY <1>5 DEF RecordContract, Contractable
  <2>2. bids[b] \in Seq(Bid)
    BY <1>1
  <2>3. Len(bids[b]) \in DOMAIN bids[b]
    BY <2>1, <2>2
  <2>4. /\ new.version \in DOMAIN bids'[new.bid]
        /\ bids'[new.bid][new.version].status = "won"
        /\ bids'[new.bid][new.version].value = new.value
    BY <2>1, <2>3 DEF LastOf
  <2>5. new.bid = b
    OBVIOUS
  <2> HIDE DEF new
  <2>6. QED
    BY <1>3, <2>1, <2>4, <2>5 DEF ContractsNameWonBids
<1>6. QED
  BY <1>4, <1>5, RecordMoves

\* The price book keeps the last price of each, since both are written together, and a
\* scope's name stays its own, since store refuses one that another scope has.
LEMMA CatalogStep ==
  ASSUME TypeOK, Next, CatalogAgrees
  PROVE  CatalogAgrees'
<1>1. /\ scopes \in [Scopes -> Seq(Names)]
      /\ prices \in [Prices -> Seq(Amounts)]
      /\ book \in [Prices -> Amounts \cup {None}]
  BY DEF TypeOK
<1>2. \A s, t \in Scopes :
         s # t /\ scopes[s] # <<>> /\ scopes[t] # <<>> => LastOf(scopes[s]) # LastOf(scopes[t])
  BY DEF CatalogAgrees
<1>3. /\ Copied \in [Prices -> Seq(Amounts)]
      /\ \A p \in Prices : Copied[p] # <<>> => book[p] = LastOf(Copied[p])
  BY <1>1 DEF CatalogAgrees, Copied, LastOf
<1>4. CASE UNCHANGED <<scopes, prices, book>>
  BY <1>4 DEF CatalogAgrees
<1>5. CASE ReadCatalog
  BY <1>2, <1>3, <1>5 DEF CatalogAgrees, ReadCatalog
<1>6. ASSUME NEW s \in Scopes, NEW e \in 0 .. MaxVersion, NEW n \in Names, SaveScope(s, e, n)
      PROVE  CatalogAgrees'
  <2>1. /\ scopes' = [scopes EXCEPT ![s] = Append(@, n)] /\ prices' = Copied /\ book' = book
        /\ \A t \in Scopes \ {s} : scopes[t] # <<>> => LastOf(scopes[t]) # n
    BY <1>6 DEF SaveScope, NameFree
  <2>2. LastOf(scopes'[s]) = n
    <3>1. scopes[s] \in Seq(Names) /\ scopes'[s] = Append(scopes[s], n)
      BY <1>1, <2>1
    <3>2. QED
      BY <3>1, Appended DEF LastOf
  <2>3. \A t \in Scopes \ {s} : scopes'[t] = scopes[t]
    BY <1>1, <2>1
  <2>4. QED
    BY <1>2, <1>3, <2>1, <2>2, <2>3 DEF CatalogAgrees
<1>7. ASSUME NEW p \in Prices, NEW e \in 0 .. MaxVersion, NEW a \in Amounts, SavePrice(p, e, a)
      PROVE  CatalogAgrees'
  <2>1. /\ prices' = [Copied EXCEPT ![p] = Append(@, a)] /\ book' = [book EXCEPT ![p] = a]
        /\ scopes' = scopes
    BY <1>7 DEF SavePrice
  <2>2. LastOf(prices'[p]) = a
    <3>1. Copied[p] \in Seq(Amounts) /\ prices'[p] = Append(Copied[p], a)
      BY <1>3, <2>1
    <3>2. QED
      BY <3>1, Appended DEF LastOf
  <2>3. \A q \in Prices \ {p} : prices'[q] = Copied[q] /\ book'[q] = book[q]
    BY <1>1, <1>3, <2>1
  <2>4. book'[p] = a
    BY <1>1, <2>1
  <2>5. QED
    BY <1>2, <1>3, <2>1, <2>2, <2>3, <2>4 DEF CatalogAgrees
<1>8. QED
  BY <1>4, <1>5, <1>6, <1>7, RecordMoves

\* A longer ledger has the old sums, and those with its new entry.
LEMMA SumGrown ==
  ASSUME NEW l \in Seq(Entry), NEW e \in Entry, NEW S \in SUBSET DOMAIN l
  PROVE  /\ SumOf(l, S) \in Int
         /\ SumOf(Append(l, e), S) = SumOf(l, S)
         /\ SumOf(Append(l, e), S \cup {Len(l) + 1}) = e.amount + SumOf(l, S)
         /\ \A i \in S : SumOf(l, S) = l[i].amount + SumOf(l, S \ {i})
         /\ \A i \in S : SumOf(Append(l, e), S \ {i}) = SumOf(l, S \ {i})
         /\ \A i \in S : SumOf(l, S \ {i}) \in Int
<1> DEFINE n == Len(l)  m == Append(l, e)
<1>1. /\ n \in Nat /\ DOMAIN l = 1 .. n /\ DOMAIN m = 1 .. n + 1
      /\ \A i \in 1 .. n : m[i] = l[i] /\ l[i] \in Entry
      /\ m[n + 1] = e
  BY Appended
<1> HIDE DEF n, m
<1>2. IsFiniteSet(1 .. n + 1)
  BY <1>1, FS_Interval
<1>3. \A i \in 1 .. n + 1 : m[i].amount \in Int
  BY <1>1 DEF Entry
<1>4. \A i \in 1 .. n : l[i].amount \in Int /\ m[i].amount = l[i].amount
  BY <1>1 DEF Entry
<1>5. ASSUME NEW T, T \subseteq 1 .. n
      PROVE  IsFiniteSet(T) /\ SumOf(l, T) \in Int /\ SumOf(m, T) = SumOf(l, T)
  <2>1. T \in SUBSET (1 .. n + 1)
    BY <1>1, <1>5
  <2>2. IsFiniteSet(T)
    BY <1>2, <2>1, FS_Subset
  <2>3. \A i \in T : l[i].amount \in Int /\ m[i].amount = l[i].amount
    BY <1>4, <1>5
  <2>4. SumOf(l, T) \in Int
    BY <2>2, <2>3, SumType
  <2>5. SumOf(m, T) = SumOf(l, T)
    BY <2>2, <2>3, SumsEqual
  <2>6. QED
    BY <2>2, <2>4, <2>5
<1>6. S \subseteq 1 .. n
  BY <1>1
<1>7. SumOf(m, S \cup {n + 1}) = e.amount + SumOf(l, S)
  <2> DEFINE T == S \cup {n + 1}
  <2>1. T \in SUBSET (1 .. n + 1) /\ n + 1 \in T /\ T \ {n + 1} = S
    BY <1>1, <1>6
  <2>2. IsFiniteSet(T)
    BY <1>2, <2>1, FS_Subset
  <2>3. \A i \in T : m[i].amount \in Int
    BY <1>3, <2>1
  <2> HIDE DEF T
  <2>4. SumOf(m, T) = m[n + 1].amount + SumOf(m, T \ {n + 1})
    <3>1. PICK x \in T : x = n + 1
      BY <2>1
    <3>2. SumOf(m, T) = m[x].amount + SumOf(m, T \ {x})
      BY <2>2, <2>3, SumRemove
    <3>3. QED
      BY <3>1, <3>2
  <2>5. SumOf(m, S) = SumOf(l, S)
    BY <1>5, <1>6
  <2>6. QED
    BY <1>1, <2>1, <2>4, <2>5 DEF T
<1>8. ASSUME NEW i \in S
      PROVE  /\ SumOf(l, S) = l[i].amount + SumOf(l, S \ {i})
             /\ SumOf(m, S \ {i}) = SumOf(l, S \ {i}) /\ SumOf(l, S \ {i}) \in Int
  <2>1. IsFiniteSet(S)
    BY <1>5, <1>6
  <2>2. \A j \in S : l[j].amount \in Int
    BY <1>4, <1>6
  <2>3. SumOf(l, S) = l[i].amount + SumOf(l, S \ {i})
    BY <2>1, <2>2, SumRemove
  <2>4. S \ {i} \subseteq 1 .. n
    BY <1>6
  <2>5. QED
    BY <1>5, <2>3, <2>4
<1>9. SumOf(l, S) \in Int /\ SumOf(m, S) = SumOf(l, S)
  BY <1>5, <1>6
<1>10. QED
  BY <1>7, <1>8, <1>9 DEF n, m

\* An entry is an invoice or a receipt of a positive amount, or a reversal of one.
Paired == \A j \in DOMAIN ledger :
    /\ ledger[j].reverses = 0 => /\ ledger[j].kind \in {"invoiced", "received"}
                                 /\ ledger[j].amount \in Amounts
    /\ ledger[j].reverses # 0 =>
          /\ ledger[j].kind = "reversal"
          /\ ledger[ledger[j].reverses].reverses = 0

\* An entry adds its amount to both sums. A reversal takes from the running total what
\* the reversed entry no longer adds to the standing ones; it is refused when the entry is
\* already reversed or is itself a reversal, which keeps the pairs apart.
LEMMA LedgerStep ==
  ASSUME TypeOK, Next, Paired, TotalsAreStanding
  PROVE  Paired' /\ TotalsAreStanding'
<1> DEFINE n == Len(ledger)
<1>1. /\ ledger \in Seq(Entry) /\ n \in Nat /\ DOMAIN ledger = 1 .. n
      /\ \A i \in 1 .. n : ledger[i] \in Entry /\ ledger[i].reverses \in 0 .. i - 1
  <2>1. ledger \in Seq(Entry) /\ \A i \in DOMAIN ledger : ledger[i].reverses \in 0 .. i - 1
    BY DEF TypeOK, Entry
  <2>2. QED
    BY <2>1
<1>2. CASE UNCHANGED ledger
  <2>1. Paired'
    BY <1>2 DEF Paired
  <2>2. ASSUME NEW b \in Bids, NEW kind \in {"invoiced", "received"}
        PROVE  Counted(b, kind)' = Counted(b, kind) /\ Standing(b, kind)' = Standing(b, kind)
    BY <1>2 DEF Counted, CountsAs, Standing
  <2>3. TotalsAreStanding'
    BY <1>2, <2>2 DEF TotalsAreStanding, Total
  <2>4. QED
    BY <2>1, <2>3
<1>3. ASSUME NEW e \in Entry, ledger' = Append(ledger, e)
      PROVE  /\ DOMAIN ledger' = 1 .. n + 1 /\ ledger'[n + 1] = e
             /\ \A i \in 1 .. n : ledger'[i] = ledger[i]
             /\ \A i \in 1 .. n : CountsAs(i)' = CountsAs(i)
  <2>1. /\ DOMAIN ledger' = 1 .. n + 1 /\ ledger'[n + 1] = e
        /\ \A i \in 1 .. n : ledger'[i] = ledger[i]
    BY <1>1, <1>3, Appended
  <2>2. \A i \in 1 .. n : ledger[i].reverses # 0 => ledger[i].reverses \in 1 .. n
    BY <1>1
  <2>3. QED
    BY <2>1, <2>2 DEF CountsAs
<1>4. ASSUME NEW e \in Entry, ledger' = Append(ledger, e),
             e.kind \in {"invoiced", "received"}, e.amount \in Amounts, e.reverses = 0
      PROVE  Paired' /\ TotalsAreStanding'
  <2>1. /\ DOMAIN ledger' = 1 .. n + 1 /\ ledger'[n + 1] = e
        /\ \A i \in 1 .. n : ledger'[i] = ledger[i]
        /\ \A i \in 1 .. n : CountsAs(i)' = CountsAs(i)
    BY <1>3, <1>4
  <2>2. Paired'
    BY <1>1, <1>4, <2>1 DEF Paired
  <2>3. ASSUME NEW b \in Bids, NEW kind \in {"invoiced", "received"}
        PROVE  SumOf(ledger', Counted(b, kind)') = SumOf(ledger', Standing(b, kind)')
    <3> DEFINE new == IF e.contract = b /\ e.kind = kind THEN {n + 1} ELSE {}
    <3>1. Counted(b, kind)' = Counted(b, kind) \cup new
      <4>1. \A m : m = n + 1 => (ledger'[m].contract = b /\ CountsAs(m)' = kind <=> m \in new)
        BY <1>4, <2>1 DEF CountsAs
      <4>2. QED
        BY <1>1, <2>1, <4>1 DEF Counted
    <3>2. Standing(b, kind)' = Standing(b, kind) \cup new
      <4>0. /\ \A j \in 1 .. n + 1 : j \in 1 .. n \/ j = n + 1
            /\ \A j \in 1 .. n : j \in 1 .. n + 1 /\ j # 0
        BY <1>1
      <4>1. \A i \in 1 .. n : (\E j \in 1 .. n + 1 : ledger'[j].reverses = i)
                                 <=> (\E j \in 1 .. n : ledger[j].reverses = i)
        BY <1>4, <2>1, <4>0
      <4>2. ~\E j \in 1 .. n + 1 : ledger'[j].reverses = n + 1
        BY <1>1, <1>4, <2>1
      <4>3. QED
        BY <1>1, <2>1, <4>1, <4>2 DEF Standing
    <3>3. /\ Counted(b, kind) \in SUBSET DOMAIN ledger
          /\ Standing(b, kind) \in SUBSET DOMAIN ledger
          /\ SumOf(ledger, Counted(b, kind)) = SumOf(ledger, Standing(b, kind))
      BY DEF TotalsAreStanding, Total, Counted, Standing
    <3>4. new = {} \/ new = {n + 1}
      OBVIOUS
    <3> HIDE DEF new
    <3>5. CASE new = {}
      BY <1>1, <1>4, <3>1, <3>2, <3>3, <3>5, SumGrown
    <3>6. CASE new = {n + 1}
      BY <1>1, <1>4, <3>1, <3>2, <3>3, <3>6, SumGrown
    <3>7. QED
      BY <3>4, <3>5, <3>6
  <2>4. QED
    BY <2>2, <2>3 DEF TotalsAreStanding, Total
<1>5. ASSUME NEW e \in Entry, ledger' = Append(ledger, e), NEW i \in DOMAIN ledger,
             e.kind = "reversal", e.amount = 0 - ledger[i].amount, e.reverses = i,
             e.contract = ledger[i].contract, ledger[i].reverses = 0,
             ~\E j \in DOMAIN ledger : ledger[j].reverses = i
      PROVE  Paired' /\ TotalsAreStanding'
  <2>1. /\ DOMAIN ledger' = 1 .. n + 1 /\ ledger'[n + 1] = e
        /\ \A j \in 1 .. n : ledger'[j] = ledger[j]
        /\ \A j \in 1 .. n : CountsAs(j)' = CountsAs(j)
    BY <1>3, <1>5
  <2>2. Paired'
    <3>1. \A j \in 1 .. n : ledger[j].reverses # 0 => ledger[j].reverses \in 1 .. n
      BY <1>1
    <3>2. QED
      BY <1>1, <1>5, <2>1, <3>1 DEF Paired
  <2>3. ASSUME NEW b \in Bids, NEW kind \in {"invoiced", "received"}
        PROVE  SumOf(ledger', Counted(b, kind)') = SumOf(ledger', Standing(b, kind)')
    <3>1. Counted(b, kind)' = IF ledger[i].contract = b /\ ledger[i].kind = kind
                              THEN Counted(b, kind) \cup {n + 1} ELSE Counted(b, kind)
      <4>1. \A m : m = n + 1 => (ledger'[m].contract = b /\ CountsAs(m)' = kind
                                   <=> ledger[i].contract = b /\ ledger[i].kind = kind)
        BY <1>1, <1>5, <2>1 DEF CountsAs
      <4>2. QED
        BY <1>1, <2>1, <4>1 DEF Counted
    <3>2. Standing(b, kind)' = Standing(b, kind) \ {i}
      <4>0. /\ \A j \in 1 .. n + 1 : j \in 1 .. n \/ j = n + 1
            /\ \A j \in 1 .. n : j \in 1 .. n + 1 /\ j # 0
            /\ n + 1 \in 1 .. n + 1
        BY <1>1
      <4>1. \A k \in 1 .. n : (\E j \in 1 .. n + 1 : ledger'[j].reverses = k)
                                 <=> ((\E j \in 1 .. n : ledger[j].reverses = k) \/ k = i)
        BY <1>5, <2>1, <4>0
      <4>2. ledger'[n + 1].kind # kind
        BY <1>5, <2>1
      <4>3. /\ DOMAIN ledger' = 1 .. n + 1 /\ DOMAIN ledger = 1 .. n
            /\ \A j \in 1 .. n : /\ ledger'[j].kind = ledger[j].kind
                                  /\ ledger'[j].contract = ledger[j].contract
        BY <1>1, <2>1
      <4>4. \A m \in 1 .. n : m \in Standing(b, kind)' <=> m \in Standing(b, kind) /\ m # i
        BY <4>0, <4>1, <4>3 DEF Standing
      <4>5. Standing(b, kind)' \subseteq 1 .. n /\ Standing(b, kind) \subseteq 1 .. n
        BY <4>0, <4>2, <4>3 DEF Standing
      <4>6. QED
        BY <4>4, <4>5
    <3>3. i \in Standing(b, kind) <=> ledger[i].contract = b /\ ledger[i].kind = kind
      BY <1>5 DEF Standing
    <3>4. /\ Counted(b, kind) \in SUBSET DOMAIN ledger
          /\ Standing(b, kind) \in SUBSET DOMAIN ledger
          /\ SumOf(ledger, Counted(b, kind)) = SumOf(ledger, Standing(b, kind))
      BY DEF TotalsAreStanding, Total, Counted, Standing
    <3>5. CASE i \in Standing(b, kind)
      <4>1. SumOf(ledger', Counted(b, kind)') = e.amount + SumOf(ledger, Counted(b, kind))
        BY <1>1, <1>5, <3>1, <3>3, <3>4, <3>5, SumGrown
      <4>2. /\ SumOf(ledger', Standing(b, kind)') = SumOf(ledger, Standing(b, kind) \ {i})
            /\ SumOf(ledger, Standing(b, kind) \ {i}) \in Int
            /\ SumOf(ledger, Standing(b, kind)) =
                  ledger[i].amount + SumOf(ledger, Standing(b, kind) \ {i})
        <5> DEFINE S == Standing(b, kind)
        <5>1. S \in SUBSET DOMAIN ledger /\ i \in S /\ ledger \in Seq(Entry)
          BY <1>1, <3>4, <3>5
        <5>2. Standing(b, kind)' = S \ {i} /\ ledger' = Append(ledger, e)
          BY <1>5, <3>2
        <5> HIDE DEF S
        <5>3. /\ SumOf(Append(ledger, e), S \ {i}) = SumOf(ledger, S \ {i})
              /\ SumOf(ledger, S \ {i}) \in Int
              /\ SumOf(ledger, S) = ledger[i].amount + SumOf(ledger, S \ {i})
          BY <5>1, SumGrown
        <5>4. QED
          BY <5>2, <5>3 DEF S
      <4>3. ledger[i].amount \in Int
        BY <1>1 DEF Entry
      <4>4. QED
        BY <1>5, <3>4, <4>1, <4>2, <4>3
    <3>6. CASE i \notin Standing(b, kind)
      <4>1. Counted(b, kind)' = Counted(b, kind) /\ Standing(b, kind)' = Standing(b, kind)
        BY <3>1, <3>2, <3>3, <3>6
      <4>2. SumOf(ledger', Counted(b, kind)) = SumOf(ledger, Counted(b, kind))
        BY <1>1, <1>5, <3>4, SumGrown
      <4>3. SumOf(ledger', Standing(b, kind)) = SumOf(ledger, Standing(b, kind))
        BY <1>1, <1>5, <3>4, SumGrown
      <4>4. QED
        BY <3>4, <4>1, <4>2, <4>3
    <3>7. QED
      BY <3>5, <3>6
  <2>4. QED
    BY <2>2, <2>3 DEF TotalsAreStanding, Total
<1>6. QED
  BY <1>2, <1>4, <1>5, EntryAdded

-----------------------------------------------------------------------------
\* The inductive invariant.
IInv ==
    /\ TypeOK
    /\ \A k \in Leads : Scores(k)
    /\ \A k \in Leads : Decides(k)
    /\ Outreach
    /\ WeightsFollowReviews
    /\ ContractsNameWonBids
    /\ CatalogAgrees
    /\ Paired
    /\ TotalsAreStanding

\* The inductive invariant holds at the start.
LEMMA InvariantInit ==
  ASSUME Init
  PROVE  IInv
<1>1. \A k \in Leads : Scores(k) /\ Decides(k)
  BY DEF Init, DeskInit, Unset, Scores, Decides
<1>2. Outreach
  BY DEF Init, DeskInit, NoPost, At, Outreach
<1>3. WeightsFollowReviews
  BY DEF Init, DeskInit, WeightsFollowReviews
<1>4. ContractsNameWonBids /\ Paired
  BY DEF Init, CommercialInit, ContractsNameWonBids, Paired
<1>5. CatalogAgrees
  <2>1. \A s \in Scopes : scopes[s] # <<>> => LastOf(scopes[s]) = s
    BY DEF Init, CommercialInit, LastOf
  <2>2. \A p \in Prices : prices[p] = <<>>
    BY DEF Init, CommercialInit
  <2>3. QED
    BY <2>1, <2>2 DEF CatalogAgrees
<1>6. TotalsAreStanding
  <2> SUFFICES ASSUME NEW b \in Bids, NEW kind \in {"invoiced", "received"}
      PROVE  SumOf(ledger, Counted(b, kind)) = SumOf(ledger, Standing(b, kind))
    BY DEF TotalsAreStanding, Total
  <2>1. Counted(b, kind) = {} /\ Standing(b, kind) = {}
    BY DEF Init, CommercialInit, Counted, Standing
  <2>2. QED
    BY <2>1
<1>7. QED
  BY <1>1, <1>2, <1>3, <1>4, <1>5, <1>6, TypeInit DEF IInv

\* Every step keeps it.
LEMMA InvariantStep ==
  ASSUME IInv, [Next]_vars
  PROVE  IInv'
<1>1. TypeOK'
  BY TypeStep DEF IInv
<1>2. CASE Next
  BY <1>1, <1>2, ScoresStep, DecidesStep, OutreachStep, WeightsStep, ContractsStep, CatalogStep,
     LedgerStep DEF IInv
<1>3. CASE UNCHANGED vars
  <2>1. UNCHANGED deskVars /\ UNCHANGED commercialVars /\ UNCHANGED post
    BY <1>3 DEF vars
  <2>2. \A k \in Leads : Scores(k)' /\ Decides(k)'
    BY <2>1 DEF IInv, deskVars, Scores, RunStarts, Decides
  <2>3. Outreach' /\ WeightsFollowReviews'
    BY <2>1 DEF IInv, deskVars, Outreach, HasQueued, At, WeightsFollowReviews
  <2>4. ContractsNameWonBids' /\ CatalogAgrees' /\ Paired'
    BY <2>1 DEF IInv, commercialVars, ContractsNameWonBids, CatalogAgrees, Paired
  <2>5. ledger' = ledger /\ \A b, kind : /\ Counted(b, kind)' = Counted(b, kind)
                                         /\ Standing(b, kind)' = Standing(b, kind)
    BY <2>1 DEF commercialVars, Counted, CountsAs, Standing
  <2>6. TotalsAreStanding'
    BY <2>5 DEF IInv, TotalsAreStanding, Total
  <2>7. QED
    BY <1>1, <2>2, <2>3, <2>4, <2>6 DEF IInv
<1>4. QED
  BY <1>2, <1>3

\* Every state satisfies the inductive invariant: TypeOK with the run of each status, the
\* source of each decision, the pairs of the ledger and its sums.
THEOREM Inductive == Spec => []IInv
<1>1. Init => IInv
  BY InvariantInit
<1>2. IInv /\ [Next]_vars => IInv'
  BY InvariantStep
<1>3. QED
  BY <1>1, <1>2, PTL DEF Spec

\* Every state is well formed (LeadDesk, Commercial: the tables of the Command Center).
THEOREM TypeCorrect == Spec => []TypeOK
<1>1. IInv => TypeOK
  BY DEF IInv
<1>2. QED
  BY <1>1, Inductive, PTL

\* In every state the current feedback is the last row of its history and is scored by the
\* row at which that status began, and an outreach event follows a row that queued it
\* (save_feedback and the queue's three transactions).
THEOREM OneStory == Spec => []FeedbackMatchesLog
<1>1. IInv => FeedbackMatchesLog
  <2> SUFFICES ASSUME IInv, NEW k \in Leads
      PROVE  /\ IF log[k] = <<>> THEN feedback[k].status = "New"
                ELSE feedback[k] = [status |-> log[k][Len(log[k])].status,
                                    scored |-> log[k][FirstOfRun(k)].row]
             /\ "outreach_queued" \in journal[k] =>
                    \E i \in DOMAIN log[k] : log[k][i].status = "Outreach_queued"
             /\ k \in dnc => k \notin queue
    BY DEF FeedbackMatchesLog
  <2>1. Scores(k) /\ Outreach /\ TypeOK
    BY DEF IInv
  <2>2. CASE log[k] = <<>>
    BY <2>1, <2>2 DEF Scores, Outreach, HasQueued
  <2>3. CASE log[k] # <<>>
    <3>1. PICK i \in DOMAIN log[k] :
             /\ RunStarts(k, i)
             /\ feedback[k] = [status |-> log[k][Len(log[k])].status, scored |-> log[k][i].row]
      BY <2>1, <2>3 DEF Scores
    <3>2. FirstOfRun(k) = i
      BY <2>1, <3>1, OneRun
    <3>3. feedback[k] = [status |-> log[k][Len(log[k])].status,
                         scored |-> log[k][FirstOfRun(k)].row]
      BY <3>1, <3>2
    <3>4. /\ "outreach_queued" \in journal[k] =>
                 \E j \in DOMAIN log[k] : log[k][j].status = "Outreach_queued"
          /\ k \in dnc => k \notin queue
      BY <2>1 DEF Outreach, HasQueued
    <3>5. QED
      BY <2>3, <3>3, <3>4
  <2>4. QED
    BY <2>2, <2>3
<1>2. QED
  BY <1>1, Inductive, PTL

\* In every state the site review that counts is the operator's last decision, also after
\* an edit of the facts (save_facts, review_site).
THEOREM DecisionsHold == Spec => []ReviewsDecide
<1>1. IInv => ReviewsDecide
  <2> SUFFICES ASSUME IInv PROVE NewestDecisionShows
    BY DEF IInv, ReviewsDecide
  <2> SUFFICES ASSUME NEW k \in Leads
      PROVE  /\ decided[k] = None => ~ShownVerified(k)
             /\ decided[k] # None /\ decided[k].by = "fact" =>
                   ShownVerified(k) = decided[k].yes
             /\ decided[k] # None /\ decided[k].by = "review" =>
                   (ShownVerified(k) <=> /\ decided[k].yes
                                         /\ decided[k].row = active[k]
                                         /\ decided[k].named = facts[k].named)
    BY DEF NewestDecisionShows
  <2>1. Decides(k)
    BY DEF IInv
  <2>2. CASE decided[k] = None
    BY <2>1, <2>2 DEF Decides, ShownVerified
  <2>3. CASE decided[k] # None /\ decided[k].by = "fact"
    <3>1. review[k] = None /\ decided[k].yes = (facts[k].verified = "yes")
      BY <2>1, <2>3 DEF Decides
    <3>2. ShownVerified(k) = (facts[k].verified = "yes")
      BY <3>1 DEF ShownVerified
    <3>3. QED
      BY <2>3, <3>1, <3>2
  <2>4. CASE decided[k] # None /\ decided[k].by = "review"
    BY <2>1, <2>4 DEF Decides, ShownVerified
  <2>5. QED
    BY <2>1, <2>2, <2>3, <2>4 DEF Decides
<1>2. QED
  BY <1>1, Inductive, PTL

\* A step that ends an alert is its acknowledgement, its removal, or a publication that
\* leaves the watch alone.
LEMMA AlertsEnd ==
  ASSUME IInv, [Next]_vars, NEW k \in Leads
  PROVE  AlertEnds(k)
<1> SUFFICES ASSUME Flagged(k), ~Flagged(k)'
    PROVE  \/ At("watch", "commit") /\ post.lead = k /\ post.arg \in {"acknowledge", "remove"}
           \/ watch'[k] = watch[k] /\ active'[k] # active[k]
  BY DEF AlertEnds
<1>1. watch'[k] # watch[k] \/ active'[k] # active[k]
  BY DEF Flagged
<1>2. Next
  BY <1>1 DEF vars, deskVars
<1>3. TypeOK /\ PostTypeOK
  BY DEF IInv, TypeOK, DeskTypeOK
<1>4. CASE Watch
  <2>1. post.op = "watch" /\ At("watch", "commit") /\ active' = active
    BY <1>4 DEF Watch, At
  <2>2. post.lead = k /\ watch[k] # None
    BY <1>1, <1>3, <1>4, <2>1 DEF Watch, Flagged, TypeOK, DeskTypeOK
  <2>3. post.arg \in {"save", "acknowledge", "remove"}
    BY <1>3, <2>1, Waiting DEF Asks
  <2>4. post.arg # "save"
    BY <1>1, <1>3, <1>4, <2>1, <2>2 DEF Watch, Watched, TypeOK, DeskTypeOK
  <2>5. QED
    BY <2>1, <2>2, <2>3, <2>4
<1>5. QED
  BY <1>1, <1>2, <1>4, DeskMoves

\* No other step ever ends an alert, whatever the monitor publishes in between.
THEOREM AlertsStay == Spec => AlertsEndByReview
<1>1. IInv /\ [Next]_vars => [\A k \in Leads : AlertEnds(k)]_<<watch, active>>
  BY AlertsEnd
<1>2. QED
  BY <1>1, Inductive, PTL DEF Spec, AlertsEndByReview

\* In every state contracts, ledger and catalog agree with the histories they rest on: a
\* contract with a won version of its bid, totals with the entries that stand, the price
\* book with the last price.
THEOREM RecordsHold == Spec => []RecordsAgree
<1>1. IInv => RecordsAgree
  BY DEF IInv, RecordsAgree
<1>2. QED
  BY <1>1, Inductive, PTL

\* A contract's invoiced and received totals are at least zero.
NeverNegative == \A b \in Bids, kind \in {"invoiced", "received"} : Total(b, kind) >= 0

\* No sequence of entries and reversals brings a total below zero.
THEOREM TotalsNeverNegative == Spec => []NeverNegative
<1>1. IInv => NeverNegative
  <2> SUFFICES ASSUME IInv, NEW b \in Bids, NEW kind \in {"invoiced", "received"}
      PROVE  SumOf(ledger, Standing(b, kind)) >= 0
    BY DEF NeverNegative, IInv, TotalsAreStanding, Total
  <2>1. \A i \in Standing(b, kind) : ledger[i].amount \in Nat
    BY CommercialConstants DEF IInv, Paired, Standing
  <2>2. IsFiniteSet(Standing(b, kind))
    <3>1. ledger \in Seq(Entry)
      BY DEF IInv, TypeOK, Entry
    <3>2. Standing(b, kind) \in SUBSET (1 .. Len(ledger)) /\ Len(ledger) \in Nat
      BY <3>1 DEF Standing
    <3>3. IsFiniteSet(1 .. Len(ledger))
      BY <3>2, FS_Interval
    <3>4. QED
      BY <3>2, <3>3, FS_Subset
  <2>3. SumOf(ledger, Standing(b, kind)) \in Nat
    BY <2>1, <2>2, SumNatural
  <2>4. QED
    BY <2>3
<1>2. QED
  BY <1>1, Inductive, PTL
=============================================================================
