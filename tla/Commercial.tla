----------------------------- MODULE Commercial -----------------------------
(***************************************************************************)
(* The Command Center's commercial records (command_center_commercial.py,  *)
(* commercial_catalog.py) in the same workflow.sqlite3: versions of bids,  *)
(* one contract per won bid, its ledger of invoices, receipts and          *)
(* reversals, and the versions of scope templates and prices.  A saved bid *)
(* also moves its lead's feedback and outreach (LeadDesk).                 *)
(*                                                                         *)
(* Each of these requests is one transaction, run while the request holds  *)
(* maintenance; saving a bid first reads the lead.  Lines, taxes and texts *)
(* are left out: a bid is its status and contract value, a price a value.  *)
(***************************************************************************)
EXTENDS LeadDesk, FiniteSetsExt

CONSTANTS
    Bids,        \* bid ids
    Starters,    \* ids (and names) of the starter scopes
    Scopes,      \* scope ids, the starters' among them
    Names,       \* scope names, the starters' among them
    Prices,      \* price ids
    Amounts,     \* contract values, entry amounts and unit prices, in cents
    MaxSaves,    \* bound: versions of all bids
    MaxVersion,  \* bound: the versions an editor expects, of a bid, scope or price
    MaxEntries   \* bound: entries of the ledger

ASSUME CommercialConstants ==
    /\ Starters \subseteq Scopes \cap Names
    /\ Amounts \subseteq Nat \ {0} /\ Amounts # {}
    /\ MaxVersion \in Nat

VARIABLES
    bids,       \* bid -> its versions: lead, status, contract value
    contracts,  \* cc_contracts
    ledger,     \* cc_ledger, oldest first; `reverses' is an index, or 0
    scopes,     \* scope id -> the names of its versions
    prices,     \* price id -> the unit prices of its catalog versions
    book        \* cc_prices: price id -> unit price, or None

commercialVars == <<bids, contracts, ledger, scopes, prices, book>>

CommercialInit ==
    /\ bids = [b \in Bids |-> <<>>]
    /\ contracts = {}
    /\ ledger = <<>>
    /\ scopes = [s \in Scopes |-> IF s \in Starters THEN <<s>> ELSE <<>>]
    /\ prices = [p \in Prices |-> <<>>]
    /\ book \in [Prices -> {CHOOSE a \in Amounts : TRUE, None}]   \* a legacy price book

LastOf(seq) == seq[Len(seq)]

-----------------------------------------------------------------------------
(* Bids and contracts.                                                     *)

\* What a bid's status makes of its lead.
LeadStatus(status) ==
    CASE status = "sent" -> "Quoted" [] status = "won" -> "Won" [] status = "lost" -> "Lost"

\* save_bid's refusal: another lead's bid, or not the version the editor loaded.
BidCurrent(b, k, expected) ==
    /\ bids[b] # <<>> => LastOf(bids[b]).lead = k
    /\ expected = Len(bids[b])

\* save_bid: the version, the lead's status with its event, and its leaving the queue.
SaveBid ==
    /\ At("bid", "commit")
    /\ BidCurrent(post.arg.bid, post.lead, post.arg.expected)
    /\ bids' = [bids EXCEPT ![post.arg.bid] =
                  Append(@, [lead |-> post.lead, status |-> post.arg.status,
                             value |-> post.arg.value])]
    /\ IF post.arg.status = "draft" THEN UNCHANGED <<feedback, log>>
       ELSE SaveFeedback(post.lead, LeadStatus(post.arg.status), post.row)
    /\ queue' = IF post.arg.status \in {"won", "lost"} THEN queue \ {post.lead} ELSE queue
    /\ Answer
    /\ UNCHANGED <<ops, active, dnc, journal, watch, facts, review, decided, contacts,
                   weights, changes, contracts, ledger, scopes, prices, book>>

BidRefused ==
    /\ At("bid", "commit")
    /\ ~BidCurrent(post.arg.bid, post.lead, post.arg.expected)
    /\ Answer
    /\ UNCHANGED <<ops, deskVars, commercialVars>>

\* contract: royalty terms for a bid whose newest version is won, once.
Contractable(b) ==
    bids[b] # <<>> /\ LastOf(bids[b]).status = "won"

RecordContract(b) ==
    /\ post = NoPost /\ "contract" \in ops
    /\ Contractable(b)
    /\ ~\E c \in contracts : c.bid = b
    /\ contracts' = contracts \cup
          {[bid |-> b, version |-> Len(bids[b]), value |-> LastOf(bids[b]).value]}
    /\ UNCHANGED <<ops, post, deskVars, bids, ledger, scopes, prices, book>>

-----------------------------------------------------------------------------
(* The ledger of a contract, which is named by its bid.                    *)

\* transaction: an invoice or a receipt.
Enter(c, kind, amount) ==
    /\ post = NoPost /\ "entry" \in ops
    /\ Len(ledger) < MaxEntries
    /\ ledger' = Append(ledger, [contract |-> c.bid, kind |-> kind, amount |-> amount,
                                 reverses |-> 0])
    /\ UNCHANGED <<ops, post, deskVars, bids, contracts, scopes, prices, book>>

\* transaction's check of a reversal: an entry of the contract, itself no reversal, that
\* nothing reverses yet.
ReversibleSlip(c, i) == ledger[i].contract = c.bid /\ ledger[i].reverses = 0
Reversible(c, i) ==
    /\ ledger[i].contract = c.bid
    /\ ledger[i].reverses = 0
    /\ ~\E j \in DOMAIN ledger : ledger[j].reverses = i

Reverse(c, i) ==
    /\ post = NoPost /\ "entry" \in ops
    /\ Len(ledger) < MaxEntries
    /\ Reversible(c, i)
    /\ ledger' = Append(ledger, [contract |-> c.bid, kind |-> "reversal",
                                 amount |-> 0 - ledger[i].amount, reverses |-> i])
    /\ UNCHANGED <<ops, post, deskVars, bids, contracts, scopes, prices, book>>

\* ledger(): what a contract is shown to have invoiced or received; a reversal counts
\* under the kind of what it reverses.
CountsAs(i) ==
    IF ledger[i].reverses = 0 THEN ledger[i].kind ELSE ledger[ledger[i].reverses].kind
\* The entries that count to a total, and the sum of their amounts.
Counted(b, kind) == {i \in DOMAIN ledger : ledger[i].contract = b /\ CountsAs(i) = kind}
SumOf(rows, entries) == MapThenSumSet(LAMBDA i : rows[i].amount, entries)
Total(b, kind) == SumOf(ledger, Counted(b, kind))

-----------------------------------------------------------------------------
(* The catalog: every call first runs initialize, which copies a legacy price *)
(* book into version 1 of the catalog.                                     *)

Copied == [p \in Prices |->
    IF prices[p] = <<>> /\ book[p] # None THEN <<book[p]>> ELSE prices[p]]

\* history and current: reading the catalog initializes it too.
ReadCatalog ==
    /\ post = NoPost /\ "catalog" \in ops
    /\ prices' = Copied
    /\ UNCHANGED <<ops, post, deskVars, bids, contracts, ledger, scopes, book>>

\* store's test for a scope: no other id's current version has the name.
NameFree(s, name) == \A t \in Scopes \ {s} : scopes[t] # <<>> => LastOf(scopes[t]) # name

\* save_scope, and store for a scope; a first save has the version 0.
SaveScope(s, expected, name) ==
    /\ post = NoPost /\ "catalog" \in ops
    /\ expected = Len(scopes[s]) /\ expected < MaxVersion
    /\ NameFree(s, name)
    /\ scopes' = [scopes EXCEPT ![s] = Append(@, name)]
    /\ prices' = Copied
    /\ UNCHANGED <<ops, post, deskVars, bids, contracts, ledger, book>>

\* save_price, and store for a price, which also replaces the price book's row.
SavePrice(p, expected, price) ==
    /\ post = NoPost /\ "catalog" \in ops
    /\ expected = Len(Copied[p]) /\ expected < MaxVersion
    /\ prices' = [Copied EXCEPT ![p] = Append(@, price)]
    /\ book' = [book EXCEPT ![p] = price]
    /\ UNCHANGED <<ops, post, deskVars, bids, contracts, ledger, scopes>>

-----------------------------------------------------------------------------
Init == DeskInit /\ CommercialInit

BidRequest == \E k \in Leads, b \in Bids, expected \in 0 .. MaxVersion - 1 :
    /\ Len(log[k]) < MaxLog
    /\ MapThenSumSet(LAMBDA c : Len(bids[c]), Bids) < MaxSaves
    /\ \E status \in {"draft", "sent", "won", "lost"}, value \in Amounts \cup {0} :
          /\ (status = "won") = (value # 0)
          /\ Request("bid", k, [bid |-> b, expected |-> expected, status |-> status,
                                value |-> value], "commit")
    /\ UNCHANGED commercialVars

Next ==
    \/ DeskNext /\ UNCHANGED commercialVars
    \/ BidRequest \/ SaveBid \/ BidRefused
    \/ \E b \in Bids : RecordContract(b)
    \/ \E c \in contracts, kind \in {"invoiced", "received"}, a \in Amounts : Enter(c, kind, a)
    \/ \E c \in contracts, i \in DOMAIN ledger : Reverse(c, i)
    \/ ReadCatalog
    \/ \E s \in Scopes, e \in 0 .. MaxVersion, n \in Names : SaveScope(s, e, n)
    \/ \E p \in Prices, e \in 0 .. MaxVersion, a \in Amounts : SavePrice(p, e, a)

vars == <<ops, post, deskVars, commercialVars>>
Spec == Init /\ [][Next]_vars

-----------------------------------------------------------------------------
\* A save_bid request that waits for its transaction.
BidTypeOK ==
    post.op = "bid" =>
        /\ post.arg.bid \in Bids /\ post.arg.expected \in 0 .. MaxVersion - 1
        /\ post.arg.status \in {"draft", "sent", "won", "lost"}
        /\ post.arg.value \in Amounts \cup {0}
        /\ (post.arg.status = "won") = (post.arg.value # 0)

TypeOK ==
    /\ DeskTypeOK
    /\ BidTypeOK
    /\ bids \in [Bids -> Seq([lead : Leads, status : {"draft", "sent", "won", "lost"},
                              value : Amounts \cup {0}])]
    /\ \A b \in Bids : Len(bids[b]) <= MaxVersion
    /\ \A b \in Bids : \A v \in DOMAIN bids[b] :
          (bids[b][v].status = "won") = (bids[b][v].value # 0)
    /\ contracts \subseteq [bid : Bids, version : 1 .. MaxVersion, value : Amounts]
    /\ ledger \in Seq([contract : Bids, kind : {"invoiced", "received", "reversal"},
                       amount : Int, reverses : Nat])
    /\ \A i \in DOMAIN ledger : ledger[i].reverses \in 0 .. i - 1
    /\ scopes \in [Scopes -> Seq(Names)]
    /\ prices \in [Prices -> Seq(Amounts)]
    /\ book \in [Prices -> Amounts \cup {None}]

\* The totals ledger() shows are those of the entries still standing, so that they never
\* fall below zero, however entries and reversals follow one another.
Standing(b, kind) ==
    {i \in DOMAIN ledger : /\ ledger[i].contract = b /\ ledger[i].kind = kind
                           /\ ~\E j \in DOMAIN ledger : ledger[j].reverses = i}
TotalsAreStanding == \A b \in Bids, kind \in {"invoiced", "received"} :
    Total(b, kind) = SumOf(ledger, Standing(b, kind))

\* A contract's terms rest on a version of its bid that was won at that value; there is
\* one contract for a bid, also after the bid is revised.
ContractsNameWonBids == \A c \in contracts :
    /\ c.version \in DOMAIN bids[c.bid]
    /\ bids[c.bid][c.version].status = "won"
    /\ bids[c.bid][c.version].value = c.value
    /\ \A d \in contracts : d.bid = c.bid => d = c

\* A proposal finds one body under a scope's name (scopes() builds a dict by name), and
\* the old price table shows the price of the newest catalog version.
CatalogAgrees ==
    /\ \A s, t \in Scopes :
          s # t /\ scopes[s] # <<>> /\ scopes[t] # <<>> => LastOf(scopes[s]) # LastOf(scopes[t])
    /\ \A p \in Prices : prices[p] # <<>> => book[p] = LastOf(prices[p])

\* What the commercial pages show agrees with the records it is made from.
RecordsAgree == TotalsAreStanding /\ ContractsNameWonBids /\ CatalogAgrees
=============================================================================
