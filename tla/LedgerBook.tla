----------------------------- MODULE LedgerBook -----------------------------
(***************************************************************************)
(* Engine.Book as a state machine: directives reach the engine one by one  *)
(* in the order of sortedDirectives (date, then rank, then source line),   *)
(* which is all that is known of a user's journal.  A behaviour is one     *)
(* sorted stream; its directives are drawn from a scenario, a small        *)
(* vocabulary of accounts, transaction bodies and assertions.              *)
(***************************************************************************)
EXTENDS Booking, SequencesExt

CONSTANTS Tolerance,  \* [Commodities -> Num]
          Scenarios   \* vocabularies, each with its bound "lines" on a stream's length

ASSUME ToleranceAssumption == Tolerance \in [Commodities -> Num]

(* What a parsed journal gives the engine: numbers in lowest terms, and    *)
(* accounts, commodities and dates of their kind.                          *)
ASSUME ScenarioAssumption ==
    \A s \in Scenarios :
        /\ s.dates \subseteq Dates
        /\ s.accounts \subseteq Accounts /\ s.froms \subseteq Accounts
        /\ s.assertions \subseteq [acct : Accounts, n : Num, comm : Commodities]
        /\ s.bodies \subseteq Seq(Posting)

VARIABLES scenario,   \* the vocabulary of this behaviour
          eng,        \* the engine
          cur         \* the last directive booked

vars == <<scenario, eng, cur>>

NoDirective == [kind |-> "start", date |-> NoDate, line |-> 0]

Init ==
    /\ scenario \in Scenarios
    /\ eng = New(Tolerance)
    /\ cur = NoDirective

(* sortedDirectives: the next directive does not sort before the last one. *)
Sorted(d) ==
    \/ cur.date < d.date
    \/ cur.date = d.date /\ DirectiveOrder(cur.kind) <= DirectiveOrder(d.kind)
    \/ cur = NoDirective

Take(d) ==
    /\ cur.line < scenario.lines
    /\ d.kind \in scenario.kinds
    /\ Sorted(d)
    /\ eng' = BookDirective(eng, d)
    /\ cur' = d
    /\ UNCHANGED scenario

NextLine == cur.line + 1

TakeOpen ==
    \E a \in scenario.accounts, date \in scenario.dates :
        Take([kind |-> "open", date |-> date, line |-> NextLine, acct |-> a])
TakeClose ==
    \E a \in scenario.accounts, date \in scenario.dates :
        Take([kind |-> "close", date |-> date, line |-> NextLine, acct |-> a])
TakePad ==
    \E a \in scenario.accounts, from \in scenario.froms, date \in scenario.dates :
        Take([kind |-> "pad", date |-> date, line |-> NextLine, acct |-> a, from |-> from])
TakeBalance ==
    \E b \in scenario.assertions, date \in scenario.dates :
        Take([kind |-> "balance", date |-> date, line |-> NextLine,
              acct |-> b.acct, n |-> b.n, comm |-> b.comm])
TakeTxn ==
    \E body \in scenario.bodies, date \in scenario.dates :
        Take([kind |-> "txn", date |-> date, line |-> NextLine, flag |-> "*", postings |-> body])
TakeStored ==
    \E kind \in {"note", "event", "document"}, date \in scenario.dates :
        Take([kind |-> kind, date |-> date, line |-> NextLine])

Next == TakeOpen \/ TakeClose \/ TakePad \/ TakeBalance \/ TakeTxn \/ TakeStored

Spec == Init /\ [][Next]_vars

----------------------------------------------------------------------------
(* Safety *)

(* The sum of a function over S, taken in one order. *)
SumOver(S, f) == LET s == SetToSeq(S) IN RSum([n \in DOMAIN s |-> f[s[n]]])

HasError(line) == \E d \in eng.diags : d.line = line /\ d.sev = "error"

(* No lot ever holds less than nothing: however a transaction mixes buys   *)
(* and sells of a lot, and whatever fails halfway, the oversell test on    *)
(* the whole transaction's nets keeps the lot from going below zero.       *)
LotsNonNegative ==
    \A a \in Accounts, c \in Commodities : RNonNeg(eng.inv[a][c].units)

(* A sold-out lot keeps no cost behind that the next buy would average in. *)
EmptyLotHasNoCost ==
    \A a \in Accounts, c \in Commodities :
        eng.inv[a][c].units = Zero => eng.inv[a][c].cost = Zero

(* The running balances that assertions read and the journal that reports  *)
(* read are the same ledger: every balance is the sum of the booked legs,  *)
(* pads included.                                                          *)
BalanceIsJournal ==
    \A a \in Accounts, c \in Commodities :
        eng.bal[a][c] =
            RSum([i \in DOMAIN eng.txns |->
                    RSum([j \in DOMAIN eng.txns[i].legs |->
                            IF eng.txns[i].legs[j].acct = a
                            THEN eng.txns[i].legs[j].amts[c] ELSE Zero])])

(* A journaled transaction that touches an account outside its lifetime    *)
(* was reported: after the close as an error, before any open at least as  *)
(* a warning (a close takes effect after its day's transactions).          *)
OutOfLifeReported ==
    \A i \in DOMAIN eng.txns :
        eng.txns[i].flag # "P" =>
        \A j \in DOMAIN eng.txns[i].legs :
            LET t == eng.txns[i]
                a == t.legs[j].acct
            IN  /\ eng.close[a] # NoDate /\ t.date > eng.close[a] => HasError(t.line)
                /\ eng.open[a] = NoDate \/ t.date < eng.open[a] =>
                        \E d \in eng.diags : d.line = t.line /\ d.on = a

----------------------------------------------------------------------------
(* Action properties: what booking one directive may never do *)

Booked == Len(eng'.txns) > Len(eng.txns)
BooksCleanTxn ==
    /\ cur'.kind = "txn" /\ Booked
    /\ ~\E d \in eng'.diags : d.line = cur'.line /\ d.sev = "error"

(* Buys and sells of one lot in the same transaction. *)
RoundTrip(plan) ==
    \E i, j \in DOMAIN plan.ops, c \in Commodities :
        /\ cur'.postings[i].acct = cur'.postings[j].acct
        /\ plan.ops[i][c].kind = "buy" /\ plan.ops[j][c].kind = "sell"

FaceWeighted(plan) ==
    LET demand == FaceCurrencyDemand(cur', Given(cur'), plan.basis)
    IN  {i \in Given(cur') : CashFaceWeight(cur'.postings[i], plan.basis[i], demand)}

(* Priced or costed amounts that move no lot: bare currency conversions. *)
Conversions(plan) ==
    {i \in Given(cur') : /\ ~Costed(plan.basis[i])
                         /\ \/ cur'.postings[i].price.kind # "none"
                            \/ cur'.postings[i].cost.kind = "unit"}

ResidualMovesLot(plan) ==
    \E i \in Residual(cur'), c \in Commodities : plan.ops[i][c].kind # "none"

ResidualRepeatsLeg(plan) ==
    \E i \in Residual(cur'), j \in Given(cur') :
        /\ cur'.postings[i].acct = cur'.postings[j].acct
        /\ plan.amts[i][cur'.postings[j].units.comm] = cur'.postings[j].units.n

WeighsAtCost(plan) ==
    /\ ~RoundTrip(plan) /\ ~ResidualMovesLot(plan)
    /\ FaceWeighted(plan) = {} /\ Conversions(plan) = {}

(* The currencies whose every leg weighs at face, and in which no leg that *)
(* weighs otherwise than at cost moves the cost of another lot.            *)
SpentAtFace(plan) ==
    LET face == FaceWeighted(plan)
        spent == {cur'.postings[i].units.comm : i \in face}
        weighed(c) == \A i \in Given(cur') :
            cur'.postings[i].units.comm = c => i \in face \/ ~Costed(plan.basis[i])
        movesCost(c) == \E i \in face \cup Residual(cur'), k \in Commodities \ {c} :
            plan.ops[i][k].costComm = c
    IN  IF RoundTrip(plan) \/ Conversions(plan) # {} THEN {}
        ELSE {c \in spent : weighed(c) /\ ~movesCost(c)}

(* What the lots of an account cost in commodity c, of the commodities held. *)
LotsAt(e, a, c, held) ==
    SumOver(Commodities, [k \in Commodities |->
        IF k \in held /\ e.inv[a][k].costComm = c THEN e.inv[a][k].cost ELSE Zero])

(* The books in commodity c: lots at their cost in c, all else at face. *)
AtCost(e, c) ==
    SumOver(Accounts, [a \in Accounts |->
        RAdd(RSub(e.bal[a][c], e.inv[a][c].units), LotsAt(e, a, c, Commodities))])

(* The books in currency c, counting the currency itself at face and the   *)
(* lots of other commodities at their cost in c.                           *)
AtFace(e, c) ==
    SumOver(Accounts, [a \in Accounts |-> RAdd(e.bal[a][c], LotsAt(e, a, c, Commodities \ {c}))])

(* Double entry at cost: a transaction booked without error leaves the     *)
(* books, lots valued at cost, where they were in every commodity, to      *)
(* within the tolerance.  Excepted are transactions the cost rule does not *)
(* speak of: face-weighted currency, bare conversions, buying and selling  *)
(* one lot at once, and a residual that moves a lot.                       *)
BalancedAtCost ==
    [][ BooksCleanTxn /\ WeighsAtCost(Plan(eng, cur')) =>
        \A c \in Commodities : RWithin(AtCost(eng', c), AtCost(eng, c), Tolerance[c]) ]_vars

(* Spending a currency held at a foreign cost balances in the currency's   *)
(* own face amounts, although the lot it leaves is reduced at its cost.    *)
FxSpendBalancedAtFace ==
    [][ BooksCleanTxn =>
        \A c \in SpentAtFace(Plan(eng, cur')) :
            RWithin(AtFace(eng', c), AtFace(eng, c), Tolerance[c]) ]_vars

(* A lot's units and the account's balance move together: a transaction    *)
(* that changes the balance of a held lot's commodity changes the lot by   *)
(* the same units, unless its residual repeats an explicit leg.            *)
LotTracksBalance ==
    [][ cur'.kind = "txn" /\ Booked /\ ~ResidualRepeatsLeg(Plan(eng, cur'))
        => \A a \in Accounts, c \in Commodities :
            HasPosition(eng, a, c) =>
                RSub(eng'.bal[a][c], eng.bal[a][c]) =
                RSub(eng'.inv[a][c].units, eng.inv[a][c].units) ]_vars

(* A transaction that is not journaled changes no balance and no lot,      *)
(* except that one stopped by a cost-commodity clash keeps its first buys. *)
RejectedTxnInert ==
    [][ cur'.kind = "txn" /\ ~Booked
        => /\ eng'.bal = eng.bal
           /\ eng'.inv = eng.inv \/ \E d \in eng'.diags :
                d.line = cur'.line /\ d.what = "cost commodity mismatch"
           /\ \E d \in eng'.diags : d.line = cur'.line ]_vars

(* An assertion settles its account: afterwards no pad is pending for it,  *)
(* and the balance is the asserted one or an error says it is not.         *)
AssertionSettles ==
    [][ cur'.kind = "balance"
        => /\ eng'.pad[cur'.acct] = NoPad
           /\ \/ RWithin(cur'.n, eng'.bal[cur'.acct][cur'.comm], Tolerance[cur'.comm])
              \/ \E d \in eng'.diags : d.line = cur'.line /\ d.sev = "error" ]_vars

=============================================================================
